---- MODULE Spec2Model ----
(***************************************************************************)
(* The secret provider manager (secrets/manager.go) driven through its     *)
(* three entry points ApplyConfig, Fetch and Close, with the provider of   *)
(* the package's own tests (testConfig / testProvider) behind the          *)
(* Provider[T] and Config[T] interfaces.                                   *)
(*                                                                         *)
(* The manager is single-writer: its callers serialise ApplyConfig, Fetch  *)
(* and Close, so each call is one action.  A call leaves a record of what  *)
(* it was given, what it dispatched to the provider and what it returned   *)
(* in the variable last, until the caller takes the result (Return).       *)
(***************************************************************************)
EXTENDS Integers, Sequences, FiniteSets, TLC

\* Longest snapshot (configs slice) handed to ApplyConfig.
MaxLen == 2
\* Number of cancellation scopes (context.WithCancel calls) a run may create.
MaxBuilds == 2

\* Secret names a snapshot may use.
Names == {"a", "b"}
\* Values of testSecret.Foo; testProvider.Add rejects the empty one.
Foos == {"", "green", "blue"}

----------------------------------------------------------------------------
(* Values *)

\* testSecret: the per-secret config type T of the tests.
TestSecrets == [foo : Foos]

\* SecretConfig[T]: one named entry of a snapshot.
SecretConfigs == [name : Names, config : TestSecrets]

\* The snapshots: every configs slice of at most MaxLen entries.
Snapshots == UNION {[1..n -> SecretConfigs] : n \in 0..MaxLen}

\* The nil Config[T] interface value held by a manager without a config.
NilConfig == [isNil |-> TRUE, prefix |-> "", configID |-> 0]

\* testConfig: Prefix is serialised, configID is not.
TestConfigs ==
    { [isNil |-> FALSE, prefix |-> "i", configID |-> 1],
      [isNil |-> FALSE, prefix |-> "i", configID |-> 10],
      [isNil |-> FALSE, prefix |-> "j", configID |-> 10] }

\* The nil Provider[T]; a live provider carries the scope it was built with.
NoProvider == [config |-> "", id |-> 0, scope |-> 0]

\* The no-op cancel function func() {} is scope 0; cancelling it does nothing.
NoScope == 0

\* A map with no keys.
EmptyMap == << >>

Put(f, k, v) == [x \in (DOMAIN f) \cup {k} |-> IF x = k THEN v ELSE f[x]]

Delete(f, k) == [x \in (DOMAIN f) \ {k} |-> f[x]]

\* Errors are pairs <<message, argument>>.
NoErr == <<"", "">>
errInvalidTestSecretConfig == <<"invalid secret config", "">>
errNewProvider == <<"new provider failed", "">>
DuplicateErr(name) == <<"duplicate secret key", name>>
NotFoundErr(name) == <<"secret not found", name>>

NoData == [config |-> "", id |-> 0, value |-> ""]

----------------------------------------------------------------------------
(* yamlSerialize / yamlEqual *)

\* A serializer that also writes the untagged field configID.
yamlSerializeConfig_WithPrivate(obj) ==
    IF obj.isNil THEN << >>
    ELSE << <<"prefix", obj.prefix>>, <<"configID", obj.configID>> >>

\* The YAML document of a provider config: empty for nil, otherwise the
\* tagged fields only (prefix), never configID.
yamlSerializeConfig(obj) ==
    IF obj.isNil THEN << >> ELSE << <<"prefix", obj.prefix>> >>

\* The YAML document of a testSecret.
yamlSerializeSecret(obj) == << <<"foo", obj.foo>> >>

yamlEqualConfig(x, y) == yamlSerializeConfig(x) = yamlSerializeConfig(y)

yamlEqualSecret(x, y) == yamlSerializeSecret(x) = yamlSerializeSecret(y)

----------------------------------------------------------------------------
(* testConfig.NewProvider and testProvider *)

\* The provider NewProvider returns when it succeeds, bound to scope.
NewProvider(providerConfig, scope) ==
    [config |-> providerConfig.prefix, id |-> providerConfig.configID,
     scope |-> scope]

\* The fetcher testProvider.Add returns: a closure over the provider and the
\* secret's config.
SecretFn(p, cfg) == [p |-> p, foo |-> cfg.foo]

\* testProvider.Add: fails on an empty Foo, otherwise returns a fetcher.
ProviderAdd(p, cfg) ==
    IF cfg.foo = ""
    THEN [err |-> errInvalidTestSecretConfig, secret |-> SecretFn(NoProvider, cfg)]
    ELSE [err |-> NoErr, secret |-> SecretFn(p, cfg)]

\* testProvider.Update: Add of the new config.
ProviderUpdate(p, configBefore, configAfter) == ProviderAdd(p, configAfter)

\* testProvider.Remove: always succeeds.
ProviderRemove(p, cfg) == NoErr

\* invalidTestSecretConfigValue: a fetcher over this Foo fails on Fetch.
invalidTestSecretConfigValue == "blue"

\* makeTestSecretData: "%s-%d-foo: %s" of the provider's prefix, its id and Foo.
makeTestSecretData(config, value, id) ==
    [config |-> config, id |-> id, value |-> value]

\* SecretFn.Fetch on a fetcher of testProvider.
SecretFetch(s) ==
    IF s.foo = invalidTestSecretConfigValue
    THEN [err |-> errInvalidTestSecretConfig, data |-> NoData]
    ELSE [err |-> NoErr, data |-> makeTestSecretData(s.p.config, s.foo, s.p.id)]

----------------------------------------------------------------------------
(* ProviderManager *)

VARIABLES
    phase,                \* "idle", or "returned" until the caller takes the result
    m_provider,           \* m.provider
    m_cancelFn,           \* m.cancelFn, as the scope it cancels
    m_config,             \* m.config
    m_secrets,            \* m.secrets: name -> secretEntry
    cancelled,            \* scopes whose cancel function has been called
    nextScope,            \* the scope the next context.WithCancel creates
    failedSecretConfigs,  \* gauge prometheus_sp_failed_secret_configs
    secretsTotal,         \* gauge prometheus_sp_secrets_total
    last                  \* the last call: its arguments, dispatches, result


\* secretEntry
SecretEntry(cfg, secret) == [config |-> cfg, secret |-> secret]

\* One call the manager made on the provider.
ProviderCall(op, name, before, cfg, p, err) ==
    [op |-> op, name |-> name, before |-> before, config |-> cfg,
     scope |-> p.scope, err |-> err]

\* A first loop that reports the duplicate and leaves the name enabled.
secretNamesEnabledStep_StaysEnabled(st, name) ==
    IF name \in DOMAIN st.enabled
    THEN [st EXCEPT !.errs = Append(st.errs, DuplicateErr(name))]
    ELSE [st EXCEPT !.enabled = Put(st.enabled, name, TRUE)]

\* updateSecrets, one iteration of the first loop: the first occurrence of
\* a name enables it, the second disables it and reports one error, later
\* ones are skipped.
secretNamesEnabledStep(st, name) ==
    IF name \in DOMAIN st.enabled
    THEN IF ~st.enabled[name]
         THEN st
         ELSE [enabled |-> Put(st.enabled, name, FALSE),
               errs |-> Append(st.errs, DuplicateErr(name))]
    ELSE [st EXCEPT !.enabled = Put(st.enabled, name, TRUE)]

\* updateSecrets, first loop.
RECURSIVE secretNamesEnabledPass(_, _, _)
secretNamesEnabledPass(configs, i, st) ==
    IF i > Len(configs) THEN st
    ELSE secretNamesEnabledPass(configs, i + 1,
                                secretNamesEnabledStep(st, configs[i].name))

secretNamesEnabled(configs) ==
    secretNamesEnabledPass(configs, 1, [enabled |-> EmptyMap, errs |-> << >>])

\* updateSecrets, the body of the second loop for one incoming entry.
\* st = [secrets, final, errs, ops]: m.secrets (entries seen are deleted
\* from it), secretsFinal, errs and the provider calls so far.
reconcileOne(p, secretIncoming, st) ==
    LET name == secretIncoming.name IN
    IF name \in DOMAIN st.secrets
    THEN LET secretPrevious == st.secrets[name]
             seen == [st EXCEPT !.secrets = Delete(st.secrets, name)]
         IN IF yamlEqualSecret(secretPrevious.config, secretIncoming.config)
            THEN [seen EXCEPT !.final = Put(seen.final, name, secretPrevious)]
            ELSE LET r == ProviderUpdate(p, secretPrevious.config,
                                         secretIncoming.config)
                     call == ProviderCall("Update", name, secretPrevious.config,
                                          secretIncoming.config, p, r.err)
                 IN IF r.err # NoErr
                    THEN [seen EXCEPT !.errs = Append(seen.errs, r.err),
                                      !.ops = Append(seen.ops, call)]
                    ELSE [seen EXCEPT
                            !.final = Put(seen.final, name,
                                          [secretPrevious EXCEPT !.secret = r.secret]),
                            !.ops = Append(seen.ops, call)]
    ELSE LET r == ProviderAdd(p, secretIncoming.config)
             call == ProviderCall("Add", name, secretIncoming.config,
                                  secretIncoming.config, p, r.err)
         IN IF r.err # NoErr
            THEN [st EXCEPT !.errs = Append(st.errs, r.err),
                            !.ops = Append(st.ops, call)]
            ELSE [st EXCEPT
                    !.final = Put(st.final, name,
                                  SecretEntry(secretIncoming.config, r.secret)),
                    !.ops = Append(st.ops, call)]

\* A second loop that stops at the first failed Add or Update.
RECURSIVE reconcilePass_StopsAtError(_, _, _, _, _)
reconcilePass_StopsAtError(p, configs, enabled, i, st) ==
    IF i > Len(configs) THEN st
    ELSE IF Len(st.ops) > 0 /\ st.ops[Len(st.ops)].err # NoErr THEN st
    ELSE reconcilePass_StopsAtError(p, configs, enabled, i + 1,
            IF ~enabled[configs[i].name] THEN st
            ELSE reconcileOne(p, configs[i], st))

\* updateSecrets, second loop: the enabled entries in input order.
RECURSIVE reconcilePass(_, _, _, _, _)
reconcilePass(p, configs, enabled, i, st) ==
    IF i > Len(configs) THEN st
    ELSE reconcilePass(p, configs, enabled, i + 1,
            IF ~enabled[configs[i].name] THEN st
            ELSE reconcileOne(p, configs[i], st))

\* updateSecrets, third loop: Remove for every entry left in m.secrets, in
\* the order the map iteration yields them.
RECURSIVE removePass(_, _, _, _)
removePass(p, order, i, st) ==
    IF i > Len(order) THEN st
    ELSE LET secretUnused == st.secrets[order[i]]
             e == ProviderRemove(p, secretUnused.config)
             call == ProviderCall("Remove", order[i], secretUnused.config,
                                  secretUnused.config, p, e)
         IN removePass(p, order, i + 1,
               [st EXCEPT !.errs = IF e # NoErr THEN Append(st.errs, e) ELSE st.errs,
                          !.ops = Append(st.ops, call)])

\* The state of updateSecrets after its second loop.
reconciled(p, secrets, configs) ==
    LET first == secretNamesEnabled(configs) IN
    reconcilePass(p, configs, first.enabled, 1,
        [secrets |-> secrets, final |-> EmptyMap, errs |-> first.errs, ops |-> << >>])

\* The orders a Go map iteration may yield the keys of a map in.
RECURSIVE Orders(_)
Orders(S) ==
    IF S = {} THEN {<< >>}
    ELSE UNION {{<<x>> \o t : t \in Orders(S \ {x})} : x \in S}

\* A total that counts the enabled names only.
totalOf_EnabledOnly(enabled) ==
    Cardinality({n \in DOMAIN enabled : enabled[n]})

\* total := len(secretNamesEnabled)
totalOf(enabled) == Cardinality(DOMAIN enabled)

\* updateSecrets: the new m.secrets, the two gauges, the provider calls and
\* the joined errors.
updateSecrets(p, secrets, configs, order) ==
    LET st == removePass(p, order, 1, reconciled(p, secrets, configs))
        total == totalOf(secretNamesEnabled(configs).enabled)
        success == Cardinality(DOMAIN st.final)
    IN [secrets |-> st.final, failed |-> total - success, total |-> total,
        ops |-> st.ops, errs |-> st.errs]

\* ApplyConfig builds a provider when the provider config changed or no
\* provider is live.
NeedsProvider(eq, provider) == ~eq \/ provider = NoProvider

\* The deferred assignment m.config = providerConfig, run on every return
\* of ApplyConfig after the equality check.
DeferredConfig(config, providerConfig) == providerConfig

\* Calling a cancel function: the no-op function cancels nothing.
Cancel(scope) == IF scope = NoScope THEN {} ELSE {scope}

NoFetch == [err |-> NoErr, data |-> NoData]

\* The record of a call: op, its arguments, whether NewProvider was called
\* (built) and for which scope, the scopes the call cancelled, the provider
\* calls it dispatched in order, whether it reached the commit of
\* updateSecrets, the errors it returned (empty: nil) and, for Fetch, the
\* result.
Call(op, providerConfig, configs, name, built, scope, cancels, ops, committed, errs, fetched) ==
    [op |-> op, providerConfig |-> providerConfig, configs |-> configs,
     name |-> name, built |-> built, scope |-> scope, cancels |-> cancels,
     ops |-> ops, committed |-> committed, errs |-> errs, fetched |-> fetched]

NoCall == Call("", NilConfig, << >>, "", FALSE, NoScope, {}, << >>, FALSE,
               << >>, NoFetch)

\* The manager, the scopes and the gauges as one value.
State ==
    [provider |-> m_provider, cancelFn |-> m_cancelFn, config |-> m_config,
     secrets |-> m_secrets, cancelled |-> cancelled, nextScope |-> nextScope,
     failedSecretConfigs |-> failedSecretConfigs, secretsTotal |-> secretsTotal]

\* An empty-snapshot branch that forgets m.provider = nil.
ApplyConfigEmpty_KeepsProvider(s, providerConfig, configs) ==
    [state |-> [s EXCEPT !.cancelled = s.cancelled \cup Cancel(s.cancelFn),
                         !.cancelFn = NoScope,
                         !.secrets = EmptyMap,
                         !.config = NilConfig],
     call |-> Call("ApplyConfig", providerConfig, configs, "", FALSE, NoScope,
                   Cancel(s.cancelFn), << >>, FALSE, << >>, NoFetch)]

\* ApplyConfig with an empty configs slice.
ApplyConfigEmpty(s, providerConfig, configs) ==
    [state |-> [s EXCEPT !.cancelled = s.cancelled \cup Cancel(s.cancelFn),
                         !.provider = NoProvider,
                         !.cancelFn = NoScope,
                         !.secrets = EmptyMap,
                         !.config = NilConfig],
     call |-> Call("ApplyConfig", providerConfig, configs, "", FALSE, NoScope,
                   Cancel(s.cancelFn), << >>, FALSE, << >>, NoFetch)]

\* ApplyConfig whose NewProvider call fails: the fresh scope is cancelled
\* and the error returned; the deferred assignment still runs.
ApplyConfigNewProviderFails(s, providerConfig, configs) ==
    [state |-> [s EXCEPT !.nextScope = s.nextScope + 1,
                         !.cancelled = s.cancelled \cup Cancel(s.nextScope),
                         !.config = DeferredConfig(s.config, providerConfig)],
     call |-> Call("ApplyConfig", providerConfig, configs, "", TRUE, s.nextScope,
                   Cancel(s.nextScope), << >>, FALSE, <<errNewProvider>>, NoFetch)]

\* A rebuild that forgets to cancel the scope of the old provider.
ApplyConfigNewProvider_KeepsOldScope(s, providerConfig, configs, order) ==
    LET provider == NewProvider(providerConfig, s.nextScope)
        r == updateSecrets(provider, EmptyMap, configs, order)
    IN [state |-> [s EXCEPT !.nextScope = s.nextScope + 1,
                            !.provider = provider,
                            !.cancelFn = s.nextScope,
                            !.secrets = r.secrets,
                            !.failedSecretConfigs = r.failed,
                            !.secretsTotal = r.total,
                            !.config = DeferredConfig(s.config, providerConfig)],
        call |-> Call("ApplyConfig", providerConfig, configs, "", TRUE,
                      s.nextScope, {}, r.ops, TRUE, r.errs, NoFetch)]

\* ApplyConfig that builds a provider and reconciles the snapshot on it.
ApplyConfigNewProvider(s, providerConfig, configs, order) ==
    LET provider == NewProvider(providerConfig, s.nextScope)
        r == updateSecrets(provider, EmptyMap, configs, order)
    IN [state |-> [s EXCEPT !.nextScope = s.nextScope + 1,
                            !.cancelled = s.cancelled \cup Cancel(s.cancelFn),
                            !.provider = provider,
                            !.cancelFn = s.nextScope,
                            !.secrets = r.secrets,
                            !.failedSecretConfigs = r.failed,
                            !.secretsTotal = r.total,
                            !.config = DeferredConfig(s.config, providerConfig)],
        call |-> Call("ApplyConfig", providerConfig, configs, "", TRUE,
                      s.nextScope, Cancel(s.cancelFn), r.ops, TRUE, r.errs, NoFetch)]

\* ApplyConfig that keeps the live provider and reconciles the snapshot.
ApplyConfigKeepProvider(s, providerConfig, configs, order) ==
    LET r == updateSecrets(s.provider, s.secrets, configs, order)
    IN [state |-> [s EXCEPT !.secrets = r.secrets,
                            !.failedSecretConfigs = r.failed,
                            !.secretsTotal = r.total,
                            !.config = DeferredConfig(s.config, providerConfig)],
        call |-> Call("ApplyConfig", providerConfig, configs, "", FALSE, NoScope,
                      {}, r.ops, TRUE, r.errs, NoFetch)]

\* ProviderManager.ApplyConfig: every outcome of the call in state s.  The
\* outcomes differ in whether NewProvider succeeds and in the order the map
\* iteration of the third loop takes.
ApplyConfigOutcomes(s, providerConfig, configs) ==
    IF Len(configs) = 0
    THEN {ApplyConfigEmpty(s, providerConfig, configs)}
    ELSE IF NeedsProvider(yamlEqualConfig(s.config, providerConfig), s.provider)
    THEN {ApplyConfigNewProviderFails(s, providerConfig, configs)}
         \cup
         {ApplyConfigNewProvider(s, providerConfig, configs, order) :
            order \in Orders(DOMAIN
               reconciled(NewProvider(providerConfig, s.nextScope), EmptyMap,
                          configs).secrets)}
    ELSE {ApplyConfigKeepProvider(s, providerConfig, configs, order) :
            order \in Orders(DOMAIN
               reconciled(s.provider, s.secrets, configs).secrets)}

\* ProviderManager.Fetch as a function of m.secrets.
ManagerFetch(secrets, name) ==
    IF name \notin DOMAIN secrets
    THEN [err |-> NotFoundErr(name), data |-> NoData]
    ELSE SecretFetch(secrets[name].secret)

\* ProviderManager.Close with a nil registerer.
ManagerClose(s) ==
    [state |-> [s EXCEPT !.cancelled = s.cancelled \cup Cancel(s.cancelFn)],
     call |-> Call("Close", NilConfig, << >>, "", FALSE, NoScope,
                   Cancel(s.cancelFn), << >>, FALSE, << >>, NoFetch)]

----------------------------------------------------------------------------
(* The Kubernetes watch provider (secrets/kubernetes/watch.go): values *)

\* Watchers a run may create (calls of newWatcher that open a stream).
MaxWatchers == 2
\* Registrations (successful Adds and Update targets) held at one time.
MaxRegs == 2
\* Events a watch stream holds that its reader has not taken yet.
MaxPending == 1
\* ApplyConfig calls on the manager over the watch provider in a run.
MaxApplies == 2
\* Events of the environment in a run: a stream closed by the API server,
\* a Secret created, updated or deleted, the caller's context cancelled.
MaxEnv == 2

\* Secret objects "NAMESPACE/NAME" and the keys configs select in them.
Objects == {"ns1/s1", "ns1/s2"}

Keys == {"k1", "k2"}

\* Kubernetes SecretConfig {Namespace, Name, Key}; object is the pair
\* (Namespace, Name).
KubeSecretConfigs == [object : Objects, key : Keys]

\* SecretConfig.objectKey().String(): "NAMESPACE/NAME".
objectKey(config) == config.object

\* corev1.Secret payloads: the binary map Data and the string map
\* StringData.  Payload 2 holds k1 in both maps.
Payloads ==
    { [version |-> 1, data |-> [k \in {"k1"} |-> "Hello world!"], stringData |-> EmptyMap],
      [version |-> 2, data |-> [k \in {"k1"} |-> "xyz"], stringData |-> [k \in {"k1", "k2"} |-> "bar"]] }

\* val.s = nil: no cached payload.
Absent == [version |-> 0, data |-> EmptyMap, stringData |-> EmptyMap]

PayloadOf(v) == CHOOSE s \in Payloads \cup {Absent} : s.version = v

\* Errors of the provider and of its fetchers.
KubeNotFoundErr(object) == <<"secret not found", object>>
MissingKeyErr(object, key) == <<"secret does not contain key", object, key>>
errWatch(object) == <<"unable to watch secret", object>>
errGet(object) == <<"unable to fetch secret", object>>

\* getKey: the binary map first, then the string map.
getKey(s, object, key) ==
    IF key \in DOMAIN s.data THEN [err |-> NoErr, data |-> s.data[key]]
    ELSE IF key \in DOMAIN s.stringData THEN [err |-> NoErr, data |-> s.stringData[key]]
    ELSE [err |-> MissingKeyErr(object, key), data |-> ""]

\* watch.Event as the watcher sees it.
\* The events that carry a Secret, and those that carry none: Deleted (its
\* object is not read), Bookmark, Error (the object is a Status) and the
\* empty event, with no type and a nil object.
NoticeTypes == {"BOOKMARK", "ERROR", ""}

Events ==
    [type : {"ADDED", "MODIFIED"}, version : {s.version : s \in Payloads}]
      \cup {[type |-> t, version |-> 0] : t \in {"DELETED"} \cup NoticeTypes}

\* The context a caller hands to Add, Update, Remove and ApplyConfig; it is
\* none of the manager's scopes.
CallerCtx == 0 - 1

\* watcher: the config newWatcher was called with, refCount, the state of
\* the stream val.w ("open", "closed" by the server, "stopped", "nil" after
\* a failed reopen) with the events it holds, the cached payload val.s,
\* the context and position of the background task, and the context of
\* the provider that created it (p.ctx).
Watcher(config, refCount, w, q, s, ctx, pc, scope) ==
    [config |-> config, refCount |-> refCount, w |-> w, q |-> q, s |-> s, ctx |-> ctx, pc |-> pc,
     scope |-> scope]

\* The secrets.Secret a provider returns: nil, or the closure of
\* watcher.secret over the watcher and the config.
NilSecret == [watcher |-> 0, key |-> ""]

watcherSecret(id, config) == [watcher |-> id, key |-> config.key]

\* watcher.update
\* update with a Deleted case that keeps the cached payload.
watcherUpdate_DeletedKeeps(w, e) ==
    CASE e.type \in {"MODIFIED", "ADDED"} -> [w EXCEPT !.s = PayloadOf(e.version)]
      [] e.type = "ERROR" -> IF w.s = Absent THEN [w EXCEPT !.pc = "crashed"] ELSE w
      [] OTHER -> w

\* watcher.update; the Error case reads w.s.Namespace and panics on a nil
\* w.s, which leaves the watcher at pc "crashed".
watcherUpdate(w, e) ==
    CASE e.type = "" -> w
      [] e.type \in {"MODIFIED", "ADDED"} -> [w EXCEPT !.s = PayloadOf(e.version)]
      [] e.type = "DELETED" -> [w EXCEPT !.s = Absent]
      [] e.type = "BOOKMARK" -> w
      [] e.type = "ERROR" -> IF w.s = Absent THEN [w EXCEPT !.pc = "crashed"] ELSE w
      [] OTHER -> w

\* A closure that goes to getKey without looking at w.s first.
watcherFetch_NoNilCheck(w, key) == getKey(w.s, objectKey(w.config), key)

\* The closure of watcher.secret, called.
watcherFetch(w, key) ==
    IF w.s = Absent
    THEN [err |-> KubeNotFoundErr(objectKey(w.config)), data |-> ""]
    ELSE getKey(w.s, objectKey(w.config), key)

\* Bags of configs: the registrations the callers hold.
NoRegs == [c \in KubeSecretConfigs |-> 0]

RegsOn(regs, object) ==
    LET cs == {c \in KubeSecretConfigs : objectKey(c) = object}
        RECURSIVE Sum(_)
        Sum(S) == IF S = {} THEN 0 ELSE LET c == CHOOSE c \in S : TRUE IN regs[c] + Sum(S \ {c})
    IN Sum(cs)

RegsTotal(regs) ==
    LET RECURSIVE Sum(_)
        Sum(S) == IF S = {} THEN 0 ELSE LET o == CHOOSE o \in S : TRUE IN RegsOn(regs, o) + Sum(S \ {o})
    IN Sum(Objects)

----------------------------------------------------------------------------
(* watchProvider: Add, Update, Remove *)

\* The largest refCount (uint); TLC's integers stop at 2^31 - 1, which
\* stands for the largest value of the type here.
UintMax == 2147483647

\* refCount-- on an unsigned integer.
uintDec(n) == IF n = 0 THEN UintMax ELSE n - 1

\* The provider and what its callers hold, as one value: p.ctx, the map
\* p.secretKeyToWatcher (object key -> index in watchers), every watcher
\* newWatcher has created, the bag of configs registered by the callers
\* (successful Adds and Update targets not yet released by a Remove or an
\* Update source).
World(ctx, map, ws, regs) == [ctx |-> ctx, secretKeyToWatcher |-> map, watchers |-> ws, regs |-> regs]

\* What a provider call returns, with the world it leaves.
Result(k, secret, err) == [k |-> k, secret |-> secret, err |-> err]

Register(k, config) == [k EXCEPT !.regs[config] = @ + 1]

Release(k, config) == [k EXCEPT !.regs[config] = IF @ > 0 THEN @ - 1 ELSE 0]

\* What the API server answers to the Watch and the Get of newWatcher.
NewWatcherOutcomes == {"ok", "watchErr", "getErr"}

\* newWatcher: open the stream, seed the cache with a Get, start the
\* background task.  When the Get fails the function returns with the
\* stream it has opened and without a task.
newWatcher(k, ctx, config, outcome, seed) ==
    CASE outcome = "watchErr" ->
           Result(k, NilSecret, errWatch(objectKey(config)))
      [] outcome = "getErr" ->
           Result([k EXCEPT !.watchers = Append(@, Watcher(config, 1, "open", << >>, Absent, ctx, "nostart", k.ctx))],
                  NilSecret, errGet(objectKey(config)))
      [] OTHER ->
           Result([k EXCEPT !.watchers = Append(@, Watcher(config, 1, "open", << >>, seed, ctx, "select", k.ctx))],
                  watcherSecret(Len(k.watchers) + 1, config), NoErr)

\* Add without the lookup in the map: a watcher for every config.
watchProviderAdd_NoSharing(k, ctx, config, outcome, seed) ==
    LET r == newWatcher(k, ctx, config, outcome, seed) IN
    IF r.err # NoErr
    THEN r
    ELSE Result(Register([r.k EXCEPT !.secretKeyToWatcher = Put(@, objectKey(config), Len(r.k.watchers))], config),
                r.secret, NoErr)

\* watchProvider.Add
watchProviderAdd(k, ctx, config, outcome, seed) ==
    LET keyStr == objectKey(config) IN
    IF keyStr \in DOMAIN k.secretKeyToWatcher
    THEN LET val == k.secretKeyToWatcher[keyStr] IN
         Result(Register([k EXCEPT !.watchers[val].refCount = @ + 1], config), NilSecret, NoErr)
    ELSE LET r == newWatcher(k, ctx, config, outcome, seed) IN
         IF r.err # NoErr
         THEN r
         ELSE Result(Register([r.k EXCEPT !.secretKeyToWatcher = Put(@, keyStr, Len(r.k.watchers))], config),
                     r.secret, NoErr)

\* val.w.Stop() on the nil stream a failed reopen leaves: the call panics.
errNilStream(object) == <<"panic: nil watch.Interface", object>>

\* A panic nothing recovers ends the program.
IsPanic(err) == err[1] \in {"panic: nil watch.Interface", "panic: nil pointer dereference"}

\* Remove that reports a config it does not know.
watchProviderRemove_Strict(k, config) ==
    Result(Release(k, config), NilSecret, KubeNotFoundErr(objectKey(config)))

\* Remove that leaves the watcher in the map.
watchProviderRemove_KeepsEntry(k, config) ==
    LET key == objectKey(config) IN
    IF key \notin DOMAIN k.secretKeyToWatcher
    THEN Result(Release(k, config), NilSecret, NoErr)
    ELSE LET val == k.secretKeyToWatcher[key]
             count == uintDec(k.watchers[val].refCount)
         IN IF count > 0
            THEN Result(Release([k EXCEPT !.watchers[val].refCount = count], config), NilSecret, NoErr)
            ELSE Result(Release([k EXCEPT !.watchers[val].refCount = count,
                                          !.watchers[val].w = "stopped",
                                          !.watchers[val].q = << >>], config),
                        NilSecret, NoErr)

\* Remove that also clears the cached payload of the watcher.
watchProviderRemove_ClearsCache(k, config) ==
    LET key == objectKey(config) IN
    IF key \notin DOMAIN k.secretKeyToWatcher
    THEN Result(Release(k, config), NilSecret, NoErr)
    ELSE LET val == k.secretKeyToWatcher[key] IN
         Result(Release([k EXCEPT !.secretKeyToWatcher = Delete(@, key),
                                  !.watchers[val].refCount = uintDec(@),
                                  !.watchers[val].s = Absent,
                                  !.watchers[val].w = "stopped",
                                  !.watchers[val].q = << >>], config),
                NilSecret, NoErr)

\* watchProvider.Remove: the watcher leaves the map before its refCount is
\* looked at; the stream is stopped when the count reaches zero.
watchProviderRemove(k, config) ==
    LET key == objectKey(config) IN
    IF key \notin DOMAIN k.secretKeyToWatcher
    THEN Result(Release(k, config), NilSecret, NoErr)
    ELSE LET val == k.secretKeyToWatcher[key]
             count == uintDec(k.watchers[val].refCount)
             evicted == [k EXCEPT !.secretKeyToWatcher = Delete(@, key),
                                  !.watchers[val].refCount = count]
         IN IF count > 0
            THEN Result(Release(evicted, config), NilSecret, NoErr)
            ELSE IF k.watchers[val].w = "nil"
            THEN Result(Release(evicted, config), NilSecret, errNilStream(key))
            ELSE Result(Release([evicted EXCEPT !.watchers[val].w = "stopped",
                                                !.watchers[val].q = << >>], config),
                        NilSecret, NoErr)

\* Update that adds before it removes, and keeps the old registration when
\* the Add fails.
watchProviderUpdate_AddFirst(k, ctx, configBefore, configAfter, outcome, seed) ==
    IF objectKey(configBefore) = objectKey(configAfter)
    THEN IF objectKey(configAfter) \notin DOMAIN k.secretKeyToWatcher
         THEN Result(k, NilSecret, KubeNotFoundErr(objectKey(configAfter)))
         ELSE Result(Register(Release(k, configBefore), configAfter),
                     watcherSecret(k.secretKeyToWatcher[objectKey(configAfter)], configAfter), NoErr)
    ELSE LET added == watchProviderAdd(k, ctx, configAfter, outcome, seed) IN
         IF added.err # NoErr
         THEN added
         ELSE Result(watchProviderRemove(added.k, configBefore).k, added.secret, NoErr)

\* Update that removes and adds whatever the objects are.
watchProviderUpdate_AlwaysReplaces(k, ctx, configBefore, configAfter, outcome, seed) ==
    watchProviderAdd(watchProviderRemove(k, configBefore).k, ctx, configAfter, outcome, seed)

\* watchProvider.Update
watchProviderUpdate(k, ctx, configBefore, configAfter, outcome, seed) ==
    LET secretBefore == objectKey(configBefore)
        secretAfter == objectKey(configAfter)
    IN IF secretBefore = secretAfter
       THEN IF secretAfter \notin DOMAIN k.secretKeyToWatcher
            THEN Result(k, NilSecret, KubeNotFoundErr(secretAfter))
            ELSE Result(Register(Release(k, configBefore), configAfter),
                        watcherSecret(k.secretKeyToWatcher[secretAfter], configAfter), NoErr)
       ELSE LET removed == watchProviderRemove(k, configBefore) IN
            IF removed.err # NoErr
            THEN removed
            ELSE watchProviderAdd(removed.k, ctx, configAfter, outcome, seed)

\* The watchers whose mutex a call takes: Remove locks the watcher it finds
\* in the map.
LockedBy(k, config) ==
    IF objectKey(config) \in DOMAIN k.secretKeyToWatcher
    THEN {k.secretKeyToWatcher[objectKey(config)]}
    ELSE {}

----------------------------------------------------------------------------
(* The watch provider, its watchers and the API server: state *)

VARIABLES
    secretKeyToWatcher,   \* p.secretKeyToWatcher of the live provider
    watchers,             \* every watcher newWatcher has created, in order
    regs,                 \* the configs the callers have registered
    api,                  \* the API server: object -> version of its Secret (0: none)
    nenv,                 \* events of the environment so far
    napplies              \* ApplyConfig calls on the manager over the watch provider so far

kvars == <<secretKeyToWatcher, watchers, regs, api, nenv, napplies>>

\* The provider of TestProvider: newWatchProvider(context.Background(), ...).
KubeWorld == World(NoScope, secretKeyToWatcher, watchers, regs)

KubeInit ==
    /\ secretKeyToWatcher = EmptyMap
    /\ watchers = << >>
    /\ regs = NoRegs
    /\ api = [o \in Objects |-> IF o = "ns1/s1" THEN 1 ELSE 0]
    /\ nenv = 0
    /\ napplies = 0

\* The record of a call on the provider or on one of its fetchers.
KubeCall(op, before, config, fetcher, r, fetched) ==
    [op |-> op, before |-> before, config |-> config, fetcher |-> fetcher,
     secret |-> r.secret, err |-> r.err, fetched |-> fetched]

NoKubeFetch == [err |-> NoErr, data |-> ""]

\* The callers release what they hold: a config they registered or, as the
\* provider looks at the object only, a config on an object without watcher
\* in the map.
Releasable(k, config) ==
    k.regs[config] > 0 \/ objectKey(config) \notin DOMAIN k.secretKeyToWatcher

\* The objects whose Secret the API server creates, changes and deletes in
\* a run; the Secrets of the other objects never exist.
LiveObjects == {"ns1/s1"}

\* A task holds its watcher's mutex while it reopens the stream.
MutexFree(ws, ids) == \A i \in ids : ws[i].pc # "reopen"

\* The run stays within its bounds.
WithinBounds(k) == Len(k.watchers) <= MaxWatchers /\ RegsTotal(k.regs) <= MaxRegs

----------------------------------------------------------------------------
(* ProviderManager[kubernetes.SecretConfig] over the watch provider *)

\* WatchSPConfig: the client configuration, with what its yaml document
\* shows of it.
WatchSPConfigs == {[isNil |-> FALSE, kubeConfig |-> c] : c \in {"c1", "c2"}}

NilWatchSPConfig == [isNil |-> TRUE, kubeConfig |-> ""]

\* yamlSerialize of a WatchSPConfig and of a Kubernetes SecretConfig: all
\* their fields carry yaml tags.
yamlSerializeWatchSPConfig(obj) == IF obj.isNil THEN << >> ELSE <<"kube_config", obj.kubeConfig>>

yamlSerializeKube(obj) == <<"namespace/name", obj.object, "key", obj.key>>

yamlEqualWatchSPConfig(x, y) == yamlSerializeWatchSPConfig(x) = yamlSerializeWatchSPConfig(y)

yamlEqualKube(x, y) == yamlSerializeKube(x) = yamlSerializeKube(y)

\* Secret names and snapshots handed to the manager: two keys of one
\* object and one key of the other.
ManagedSecretConfigs == {c \in KubeSecretConfigs : c.object = "ns1/s1" \/ c.key = "k1"}

KubeConfigsOf == [name : Names, config : ManagedSecretConfigs]

KubeSnapshots == UNION {[1..n -> KubeConfigsOf] : n \in 0..MaxLen}

\* WatchSPConfig.NewProvider: newWatchProvider keeps the context it is given.
NewWatchProvider(providerConfig, scope) == [config |-> providerConfig.kubeConfig, id |-> 0, scope |-> scope]

errClient == <<"unable to create client", "">>

\* The context ApplyConfig hands to updateSecrets: the ctx of the inner
\* block (the provider's scope) is out of scope at the call, which gets
\* the caller's.
updateSecretsCtx(callerCtx, scope) == callerCtx

\* updateSecrets, the body of the second loop for one incoming entry.
\* st = [k, secrets, final, errs, ops]: the provider with its watchers,
\* m.secrets, secretsFinal, errs and the provider calls so far.
watchReconcileOne(ctx, secretIncoming, st, outcome, seed) ==
    LET name == secretIncoming.name
        p == [scope |-> st.k.ctx]
    IN
    IF name \in DOMAIN st.secrets
    THEN LET secretPrevious == st.secrets[name]
             seen == [st EXCEPT !.secrets = Delete(st.secrets, name)]
         IN IF yamlEqualKube(secretPrevious.config, secretIncoming.config)
            THEN [seen EXCEPT !.final = Put(seen.final, name, secretPrevious)]
            ELSE LET r == watchProviderUpdate(st.k, ctx, secretPrevious.config, secretIncoming.config,
                                              outcome, seed[objectKey(secretIncoming.config)])
                     call == ProviderCall("Update", name, secretPrevious.config, secretIncoming.config, p, r.err)
                 IN IF r.err # NoErr
                    THEN [seen EXCEPT !.k = r.k, !.errs = Append(seen.errs, r.err), !.ops = Append(seen.ops, call)]
                    ELSE [seen EXCEPT !.k = r.k,
                                      !.final = Put(seen.final, name, [secretPrevious EXCEPT !.secret = r.secret]),
                                      !.ops = Append(seen.ops, call)]
    ELSE LET r == watchProviderAdd(st.k, ctx, secretIncoming.config, outcome, seed[objectKey(secretIncoming.config)])
             call == ProviderCall("Add", name, secretIncoming.config, secretIncoming.config, p, r.err)
         IN IF r.err # NoErr
            THEN [st EXCEPT !.k = r.k, !.errs = Append(st.errs, r.err), !.ops = Append(st.ops, call)]
            ELSE [st EXCEPT !.k = r.k,
                            !.final = Put(st.final, name, SecretEntry(secretIncoming.config, r.secret)),
                            !.ops = Append(st.ops, call)]

\* updateSecrets, second loop: the enabled entries in input order.
RECURSIVE watchReconcilePass(_, _, _, _, _, _, _)
watchReconcilePass(ctx, configs, enabled, i, st, outcome, seed) ==
    IF i > Len(configs) THEN st
    ELSE watchReconcilePass(ctx, configs, enabled, i + 1,
            IF ~enabled[configs[i].name] THEN st
            ELSE watchReconcileOne(ctx, configs[i], st, outcome, seed),
            outcome, seed)

\* updateSecrets, third loop: Remove for every entry left in m.secrets.
RECURSIVE watchRemovePass(_, _, _)
watchRemovePass(order, i, st) ==
    IF i > Len(order) THEN st
    ELSE LET secretUnused == st.secrets[order[i]]
             r == watchProviderRemove(st.k, secretUnused.config)
             call == ProviderCall("Remove", order[i], secretUnused.config, secretUnused.config,
                                  [scope |-> st.k.ctx], r.err)
         IN watchRemovePass(order, i + 1,
               [st EXCEPT !.k = r.k,
                          !.errs = IF r.err # NoErr THEN Append(st.errs, r.err) ELSE st.errs,
                          !.ops = Append(st.ops, call)])

\* The state of updateSecrets after its second loop.
watchReconciled(k, ctx, secrets, configs, outcome, seed) ==
    LET first == secretNamesEnabled(configs) IN
    watchReconcilePass(ctx, configs, first.enabled, 1,
        [k |-> k, secrets |-> secrets, final |-> EmptyMap, errs |-> first.errs, ops |-> << >>],
        outcome, seed)

\* updateSecrets over the watch provider.
watchUpdateSecrets(k, ctx, secrets, configs, order, outcome, seed) ==
    LET st == watchRemovePass(order, 1, watchReconciled(k, ctx, secrets, configs, outcome, seed))
        total == totalOf(secretNamesEnabled(configs).enabled)
        success == Cardinality(DOMAIN st.final)
    IN [k |-> st.k, secrets |-> st.final, failed |-> total - success, total |-> total,
        ops |-> st.ops, errs |-> st.errs]

\* ApplyConfig that builds a watch provider and reconciles the snapshot on
\* it: the new provider starts with an empty map, and what was registered
\* with the old one is dropped with m.secrets.
watchApplyConfigNewProvider(s, k, providerConfig, configs, order, outcome, seed) ==
    LET provider == NewWatchProvider(providerConfig, s.nextScope)
        r == watchUpdateSecrets(World(s.nextScope, EmptyMap, k.watchers, NoRegs),
                                updateSecretsCtx(CallerCtx, s.nextScope), EmptyMap, configs, order, outcome, seed)
    IN [state |-> [s EXCEPT !.nextScope = s.nextScope + 1,
                            !.cancelled = s.cancelled \cup Cancel(s.cancelFn),
                            !.provider = provider,
                            !.cancelFn = s.nextScope,
                            !.secrets = r.secrets,
                            !.failedSecretConfigs = r.failed,
                            !.secretsTotal = r.total,
                            !.config = DeferredConfig(s.config, providerConfig)],
        k |-> r.k,
        call |-> Call("ApplyConfig", providerConfig, configs, "", TRUE,
                      s.nextScope, Cancel(s.cancelFn), r.ops, TRUE, r.errs, NoFetch)]

\* ApplyConfig that keeps the live watch provider.
watchApplyConfigKeepProvider(s, k, providerConfig, configs, order, outcome, seed) ==
    LET r == watchUpdateSecrets(k, updateSecretsCtx(CallerCtx, s.provider.scope), s.secrets, configs, order,
                                outcome, seed)
    IN [state |-> [s EXCEPT !.secrets = r.secrets,
                            !.failedSecretConfigs = r.failed,
                            !.secretsTotal = r.total,
                            !.config = DeferredConfig(s.config, providerConfig)],
        k |-> r.k,
        call |-> Call("ApplyConfig", providerConfig, configs, "", FALSE, NoScope,
                      {}, r.ops, TRUE, r.errs, NoFetch)]

\* The provider is gone (empty snapshot): so are its map and what was
\* registered with it; its watchers stay.
Dropped(k) == World(NoScope, EmptyMap, k.watchers, NoRegs)

\* ProviderManager.ApplyConfig over the watch provider: every outcome of the
\* call for one answer of the API server.
watchApplyConfigOutcomes(s, k, providerConfig, configs, outcome, seed) ==
    IF Len(configs) = 0
    THEN {[ApplyConfigEmpty(s, providerConfig, configs) EXCEPT !.call.providerConfig = providerConfig] @@ [k |-> Dropped(k)]}
    ELSE IF NeedsProvider(yamlEqualWatchSPConfig(s.config, providerConfig), s.provider)
    THEN {ApplyConfigNewProviderFails(s, providerConfig, configs) @@ [k |-> k]}
         \cup
         {watchApplyConfigNewProvider(s, k, providerConfig, configs, order, outcome, seed) :
            order \in Orders(DOMAIN watchReconciled(World(s.nextScope, EmptyMap, k.watchers, NoRegs), CallerCtx,
                                                    EmptyMap, configs, outcome, seed).secrets)}
    ELSE {watchApplyConfigKeepProvider(s, k, providerConfig, configs, order, outcome, seed) :
            order \in Orders(DOMAIN watchReconciled(k, CallerCtx, s.secrets, configs, outcome, seed).secrets)}

\* Calling Fetch on the nil secrets.Secret of an entry: a nil pointer
\* dereference, the process panics.
errNilSecret(name) == <<"panic: nil pointer dereference", name>>

\* ProviderManager.Fetch over entries of the watch provider.
watchManagerFetch(ws, secrets, name) ==
    IF name \notin DOMAIN secrets
    THEN [err |-> NotFoundErr(name), data |-> ""]
    ELSE IF secrets[name].secret = NilSecret
    THEN [err |-> errNilSecret(name), data |-> ""]
    ELSE watcherFetch(ws[secrets[name].secret.watcher], secrets[name].secret.key)

vars == <<phase, m_provider, m_cancelFn, m_config, m_secrets, cancelled, nextScope,
          failedSecretConfigs, secretsTotal, last, kvars>>

----------------------------------------------------------------------------
(* The state machine *)

Init ==
    /\ phase = "idle"
    /\ m_provider = NoProvider
    /\ m_cancelFn = NoScope
    /\ m_config = NilConfig
    /\ m_secrets = EmptyMap
    /\ cancelled = {}
    /\ nextScope = 1
    /\ failedSecretConfigs = 0
    /\ secretsTotal = 0
    /\ last = NoCall
    /\ KubeInit

\* The call with outcome o returns.
Returns(o) ==
    /\ phase' = "returned"
    /\ m_provider' = o.state.provider
    /\ m_cancelFn' = o.state.cancelFn
    /\ m_config' = o.state.config
    /\ m_secrets' = o.state.secrets
    /\ cancelled' = o.state.cancelled
    /\ nextScope' = o.state.nextScope
    /\ failedSecretConfigs' = o.state.failedSecretConfigs
    /\ secretsTotal' = o.state.secretsTotal
    /\ last' = o.call
    /\ UNCHANGED kvars

ApplyConfig ==
    /\ phase = "idle"
    /\ \E providerConfig \in TestConfigs, configs \in Snapshots :
         \E o \in ApplyConfigOutcomes(State, providerConfig, configs) :
            /\ o.state.nextScope <= MaxBuilds + 1
            /\ Returns(o)

Fetch ==
    /\ phase = "idle"
    /\ \E name \in Names :
         Returns([state |-> State,
                  call |-> Call("Fetch", NilConfig, << >>, name, FALSE, NoScope,
                                {}, << >>, FALSE, << >>,
                                ManagerFetch(m_secrets, name))])

Close ==
    /\ phase = "idle"
    /\ Returns(ManagerClose(State))

\* The caller takes the result of the call that returned.
Return ==
    /\ phase = "returned"
    /\ phase' = "idle"
    /\ last' = NoCall
    /\ UNCHANGED <<m_provider, m_cancelFn, m_config, m_secrets, cancelled,
                   nextScope, failedSecretConfigs, secretsTotal, kvars>>

Next == ApplyConfig \/ Fetch \/ Close \/ Return

Spec == Init /\ [][Next]_vars

----------------------------------------------------------------------------
(* The watch provider called directly, as TestProvider does *)

\* A provider call returns r, or panics and ends the program; the manager
\* is not involved.
KubeReturns(r, call) ==
    /\ WithinBounds(r.k)
    /\ phase' = IF IsPanic(r.err) THEN "crashed" ELSE "returned"
    /\ secretKeyToWatcher' = r.k.secretKeyToWatcher
    /\ watchers' = r.k.watchers
    /\ regs' = r.k.regs
    /\ last' = call
    /\ UNCHANGED <<m_provider, m_cancelFn, m_config, m_secrets, cancelled, nextScope,
                   failedSecretConfigs, secretsTotal, api, nenv, napplies>>

\* The calls of a caller that uses the given configs.
WatchAddOf(configs) ==
    /\ phase = "idle"
    /\ \E config \in configs, outcome \in NewWatcherOutcomes :
         LET r == watchProviderAdd(KubeWorld, CallerCtx, config, outcome, PayloadOf(api[objectKey(config)]))
         IN KubeReturns(r, KubeCall("Add", config, config, NilSecret, r, NoKubeFetch))

WatchUpdateOf(configs) ==
    /\ phase = "idle"
    /\ \E configBefore \in configs, configAfter \in configs, outcome \in NewWatcherOutcomes :
         /\ configBefore # configAfter
         /\ Releasable(KubeWorld, configBefore)
         /\ objectKey(configBefore) # objectKey(configAfter) => MutexFree(watchers, LockedBy(KubeWorld, configBefore))
         /\ LET r == watchProviderUpdate(KubeWorld, CallerCtx, configBefore, configAfter, outcome,
                                         PayloadOf(api[objectKey(configAfter)]))
            IN KubeReturns(r, KubeCall("Update", configBefore, configAfter, NilSecret, r, NoKubeFetch))

WatchRemoveOf(configs) ==
    /\ phase = "idle"
    /\ \E config \in configs :
         /\ Releasable(KubeWorld, config)
         /\ MutexFree(watchers, LockedBy(KubeWorld, config))
         /\ LET r == watchProviderRemove(KubeWorld, config)
            IN KubeReturns(r, KubeCall("Remove", config, config, NilSecret, r, NoKubeFetch))

WatchAdd == WatchAddOf(KubeSecretConfigs)

WatchUpdate == WatchUpdateOf(KubeSecretConfigs)

WatchRemove == WatchRemoveOf(KubeSecretConfigs)

\* A caller fetches through a fetcher of watcher id that it was given; the
\* closure takes the mutex of the watcher.
WatchFetchOf(id) ==
    /\ phase = "idle"
    /\ id \in DOMAIN watchers
    /\ \E key \in Keys :
         /\ watchers[id].pc # "nostart"
         /\ MutexFree(watchers, {id})
         /\ KubeReturns(Result(KubeWorld, NilSecret, NoErr),
                        KubeCall("Fetch", watchers[id].config, watchers[id].config,
                                 [watcher |-> id, key |-> key],
                                 Result(KubeWorld, NilSecret, NoErr), watcherFetch(watchers[id], key)))

WatchFetch == \E id \in 1..MaxWatchers : WatchFetchOf(id)

\* The caller's context is cancelled.
CancelCtx ==
    /\ phase = "idle"
    /\ CallerCtx \notin cancelled
    /\ nenv < MaxEnv
    /\ nenv' = nenv + 1
    /\ cancelled' = cancelled \cup {CallerCtx}
    /\ UNCHANGED <<phase, m_provider, m_cancelFn, m_config, m_secrets, nextScope,
                   failedSecretConfigs, secretsTotal, last, secretKeyToWatcher, watchers, regs, api,
                   napplies>>

----------------------------------------------------------------------------
(* The API server and the background task of each watcher *)

Idle == UNCHANGED <<phase, m_provider, m_cancelFn, m_config, m_secrets, cancelled, nextScope,
                    failedSecretConfigs, secretsTotal, last>>

\* The streams that deliver the events of an object: open, with a reader.
Delivering(ws, object) ==
    {i \in DOMAIN ws : objectKey(ws[i].config) = object /\ ws[i].w = "open" /\ ws[i].pc # "nostart"}

\* The event of a Secret that goes from version `from` to version `to`,
\* with 0 for a Secret that does not exist.
ChangeEvent(from, to) ==
    [type |-> IF to = 0 THEN "DELETED" ELSE IF from = 0 THEN "ADDED" ELSE "MODIFIED", version |-> to]

\* The Secret of an object is created, updated or deleted; every open
\* stream on the object gets the event.
ApiChange ==
    /\ phase = "idle"
    /\ nenv < MaxEnv
    /\ nenv' = nenv + 1
    /\ \E o \in LiveObjects, v \in {s.version : s \in Payloads \cup {Absent}} :
         /\ v # api[o]
         /\ \A i \in Delivering(watchers, o) : Len(watchers[i].q) < MaxPending
         /\ api' = [api EXCEPT ![o] = v]
         /\ watchers' = [i \in DOMAIN watchers |->
                           IF i \in Delivering(watchers, o)
                           THEN [watchers[i] EXCEPT !.q = Append(@, ChangeEvent(api[o], v))]
                           ELSE watchers[i]]
    /\ UNCHANGED <<secretKeyToWatcher, regs, napplies>>
    /\ Idle

\* The server closes a stream: its channel is closed once the reader has
\* taken what was sent.
KillStream ==
    /\ phase = "idle"
    /\ nenv < MaxEnv
    /\ nenv' = nenv + 1
    /\ \E i \in DOMAIN watchers :
         /\ watchers[i].w = "open" /\ watchers[i].q = << >> /\ watchers[i].pc # "nostart"
         /\ watchers' = [watchers EXCEPT ![i].w = "closed"]
    /\ UNCHANGED <<secretKeyToWatcher, regs, api, napplies>>
    /\ Idle

\* The server sends an event without a Secret on an open stream.
ApiNotice ==
    /\ phase = "idle"
    /\ nenv < MaxEnv
    /\ nenv' = nenv + 1
    /\ \E i \in DOMAIN watchers, t \in NoticeTypes :
         /\ i \in Delivering(watchers, objectKey(watchers[i].config))
         /\ Len(watchers[i].q) < MaxPending
         /\ watchers' = [watchers EXCEPT ![i].q = Append(@, [type |-> t, version |-> 0])]
    /\ UNCHANGED <<secretKeyToWatcher, regs, api, napplies>>
    /\ Idle

\* The task of watcher i panics and leaves the watcher w: nothing recovers
\* the panic of a goroutine, the program ends.
TaskPanics(i, w) ==
    /\ phase = "idle"
    /\ phase' = "crashed"
    /\ watchers' = [watchers EXCEPT ![i] = w]
    /\ UNCHANGED <<m_provider, m_cancelFn, m_config, m_secrets, cancelled, nextScope,
                   failedSecretConfigs, secretsTotal, last, secretKeyToWatcher, regs, api, nenv, napplies>>

\* One step of the task of watcher i, to the watcher w.
TaskSteps(i, w) ==
    /\ phase = "idle"
    /\ watchers' = [watchers EXCEPT ![i] = w]
    /\ UNCHANGED <<secretKeyToWatcher, regs, api, nenv, napplies>>
    /\ Idle

\* case e, ok := <-val.w.ResultChan() with ok: val.update
TaskEvent(i) ==
    /\ watchers[i].pc = "select" /\ watchers[i].w = "open" /\ watchers[i].q # << >>
    /\ LET w == [watcherUpdate(watchers[i], Head(watchers[i].q)) EXCEPT !.q = Tail(@)]
       IN IF w.pc = "crashed" THEN TaskPanics(i, w) ELSE TaskSteps(i, w)

\* A task that forgets the cached payload when its channel is closed.
TaskChannelClosed_DropsCache(i) ==
    /\ watchers[i].pc = "select" /\ watchers[i].w \in {"closed", "stopped"}
    /\ TaskSteps(i, [watchers[i] EXCEPT !.pc = "check", !.s = Absent])

\* case e, ok := <-val.w.ResultChan() with !ok: break channelLoop
TaskChannelClosed(i) ==
    /\ watchers[i].pc = "select" /\ watchers[i].w \in {"closed", "stopped"}
    /\ TaskSteps(i, [watchers[i] EXCEPT !.pc = "check"])

\* case <-ctx.Done(): stop the stream under the mutex and return
TaskCtxDone(i) ==
    /\ watchers[i].pc = "select" /\ watchers[i].w # "nil" /\ watchers[i].ctx \in cancelled
    /\ TaskSteps(i, [watchers[i] EXCEPT !.w = "stopped", !.q = << >>, !.pc = "done"])

\* val.w.ResultChan() on the nil stream a failed reopen left: the task panics.
TaskNilStream(i) ==
    /\ watchers[i].pc = "select" /\ watchers[i].w = "nil"
    /\ TaskPanics(i, [watchers[i] EXCEPT !.pc = "crashed"])

\* if val.refCount == 0 { return true }, without the mutex; then the sleep.
TaskCheck(i) ==
    /\ watchers[i].pc = "check"
    /\ TaskSteps(i, [watchers[i] EXCEPT !.pc = IF watchers[i].refCount = 0 THEN "done" ELSE "sleep"])

\* After the sleep: take the mutex and look at refCount again.
TaskWake(i) ==
    /\ watchers[i].pc = "sleep"
    /\ TaskSteps(i, [watchers[i] EXCEPT !.pc = IF watchers[i].refCount = 0 THEN "done" ELSE "reopen"])

\* The Watch call of the reconnect returns, with a stream or an error; the
\* mutex is released.
TaskReopen(i) ==
    /\ watchers[i].pc = "reopen"
    /\ \E w \in {"open", "nil"} : TaskSteps(i, [watchers[i] EXCEPT !.w = w, !.q = << >>, !.pc = "select"])

TaskOf(i) ==
    /\ i \in DOMAIN watchers
    /\ \/ TaskEvent(i)
       \/ TaskChannelClosed(i)
       \/ TaskCtxDone(i)
       \/ TaskNilStream(i)
       \/ TaskCheck(i)
       \/ TaskWake(i)
       \/ TaskReopen(i)

Task == \E i \in 1..MaxWatchers : TaskOf(i)

WatchNext ==
    \/ WatchAdd
    \/ WatchUpdate
    \/ WatchRemove
    \/ WatchFetch
    \/ CancelCtx
    \/ Return
    \/ ApiChange
    \/ KillStream
    \/ Task

\* The provider under the calls of a test and the API server.
WatchSpec == Init /\ [][WatchNext]_vars

\* The configs on the objects whose Secret changes.
LiveSecretConfigs == {c \in KubeSecretConfigs : objectKey(c) \in LiveObjects}

ReconnectAdd == WatchAddOf(LiveSecretConfigs)

ReconnectRemove == WatchRemoveOf(LiveSecretConfigs)

ReconnectNext ==
    \/ ReconnectAdd
    \/ ReconnectRemove
    \/ CancelCtx
    \/ Return
    \/ ApiChange
    \/ KillStream
    \/ Task

\* The scheduler runs every task that can take a step, and a caller takes
\* the result of its call.
Fairness ==
    /\ WF_vars(Return)
    /\ \A i \in 1..MaxWatchers : SF_vars(TaskOf(i))

\* The provider with the configs of one object registered and released,
\* and the scheduling of the tasks.
ReconnectSpec == Init /\ [][ReconnectNext]_vars /\ Fairness

\* A caller calls Remove with any config of the given ones, registered or
\* not, any number of times.
WatchRemoveAnyOf(configs) ==
    /\ phase = "idle"
    /\ \E config \in configs :
         /\ MutexFree(watchers, LockedBy(KubeWorld, config))
         /\ LET r == watchProviderRemove(KubeWorld, config)
            IN KubeReturns(r, KubeCall("Remove", config, config, NilSecret, r, NoKubeFetch))

AnyRemoveNext ==
    \/ ReconnectAdd
    \/ WatchRemoveAnyOf(LiveSecretConfigs)
    \/ CancelCtx
    \/ Return
    \/ ApiChange
    \/ KillStream
    \/ Task

\* The provider with the configs of one object under callers that remove
\* what they please.
AnyRemoveSpec == Init /\ [][AnyRemoveNext]_vars

\* Changes of a Secret between the Watch and the Get of one newWatcher.
MaxBuffered == 2

\* The versions a Secret at version v can go through, oldest first, when
\* every change gives it a higher version.
Histories(v) ==
    {h \in UNION {[1..n -> {s.version : s \in Payloads}] : n \in 0..MaxBuffered} :
       \A i \in DOMAIN h : h[i] > (IF i = 1 THEN v ELSE h[i - 1])}

\* The events of the changes h of a Secret that was at version v.
Buffered(v, h) == [i \in DOMAIN h |-> ChangeEvent(IF i = 1 THEN v ELSE h[i - 1], h[i])]

\* Add while the Secret changes: newWatcher opens the stream, then calls
\* Get; the changes h in between are in the stream when the task starts,
\* and the Get finds the Secret as the last of them left it.
StartupAdd ==
    /\ phase = "idle"
    /\ \E config \in KubeSecretConfigs : \E h \in Histories(api[objectKey(config)]) :
         LET o == objectKey(config)
             found == IF h = << >> THEN api[o] ELSE h[Len(h)]
             r == watchProviderAdd(KubeWorld, CallerCtx, config, "ok", PayloadOf(found))
             new == Len(r.k.watchers)
         IN /\ h # << >> => (o \notin DOMAIN secretKeyToWatcher /\ Delivering(watchers, o) = {})
            /\ WithinBounds(r.k)
            /\ phase' = "returned"
            /\ secretKeyToWatcher' = r.k.secretKeyToWatcher
            /\ watchers' = IF h = << >> THEN r.k.watchers
                           ELSE [r.k.watchers EXCEPT ![new].q = Buffered(api[o], h)]
            /\ regs' = r.k.regs
            /\ api' = [api EXCEPT ![o] = found]
            /\ last' = KubeCall("Add", config, config, NilSecret, r, NoKubeFetch)
    /\ UNCHANGED <<m_provider, m_cancelFn, m_config, m_secrets, cancelled, nextScope,
                   failedSecretConfigs, secretsTotal, nenv, napplies>>

\* A change of a Secret to a higher version.
ApiAdvance == ApiChange /\ \A o \in Objects : api'[o] >= api[o]

StartupNext ==
    \/ StartupAdd
    \/ WatchRemove
    \/ WatchFetch
    \/ Return
    \/ ApiAdvance
    \/ Task

\* The provider while the Secrets only move to higher versions, also
\* during an Add.
StartupSpec == Init /\ [][StartupNext]_vars

\* The provider with the configs of one object, its fetchers called, and
\* a server that sends every type of event.
EventNext ==
    \/ ReconnectAdd
    \/ ReconnectRemove
    \/ WatchFetch
    \/ CancelCtx
    \/ Return
    \/ ApiChange
    \/ ApiNotice
    \/ KillStream
    \/ Task

EventSpec == Init /\ [][EventNext]_vars

----------------------------------------------------------------------------
(* The fields of a watcher and val.mu *)

\* An access to a field of a watcher: the field, whether it is written,
\* and whether the code holds val.mu around it.
Access(field, write, locked) == [field |-> field, write |-> write, locked |-> locked]

\* The accesses the task of watcher w makes in its next step: the select
\* evaluates val.w.ResultChan() without the mutex, update and the Stop of
\* the cancellation run under it; the first look at refCount is without
\* the mutex, the second look and the reopening are under it.
taskAccesses(w) ==
    CASE w.pc = "select" ->
           {Access("w", FALSE, FALSE)}
             \cup (IF w.w = "open" /\ w.q # << >> /\ Head(w.q).type \in {"ADDED", "MODIFIED", "DELETED"}
                   THEN {Access("s", TRUE, TRUE)} ELSE {})
             \cup (IF w.w = "open" /\ w.q # << >> /\ Head(w.q).type = "ERROR"
                   THEN {Access("s", FALSE, TRUE)} ELSE {})
             \cup (IF w.ctx \in cancelled THEN {Access("w", FALSE, TRUE)} ELSE {})
      [] w.pc = "check" -> {Access("refCount", FALSE, FALSE)}
      [] w.pc = "sleep" -> {Access("refCount", FALSE, TRUE)}
      [] w.pc = "reopen" -> {Access("w", TRUE, TRUE)}
      [] OTHER -> {}

\* The accesses the callers can make to watcher i: Add increments the
\* refCount of the watcher in the map without the mutex, Remove decrements
\* it and stops the stream under the mutex, a fetcher reads val.s under it.
callerAccesses(i) ==
    (IF \E o \in DOMAIN secretKeyToWatcher : secretKeyToWatcher[o] = i
     THEN {Access("refCount", TRUE, FALSE), Access("refCount", TRUE, TRUE), Access("w", FALSE, TRUE)}
     ELSE {})
      \cup (IF watchers[i].pc # "nostart" THEN {Access("s", FALSE, TRUE)} ELSE {})

----------------------------------------------------------------------------
(* The manager over the watch provider *)

\* The provider of the manager, with p.ctx the scope it was built with.
ManagedWorld == World(m_provider.scope, secretKeyToWatcher, watchers, regs)

\* A call of the manager returns with outcome o.
ManagedReturns(o) ==
    /\ o.state.nextScope <= MaxBuilds + 1
    /\ WithinBounds(o.k)
    /\ phase' = "returned"
    /\ m_provider' = o.state.provider
    /\ m_cancelFn' = o.state.cancelFn
    /\ m_config' = o.state.config
    /\ m_secrets' = o.state.secrets
    /\ cancelled' = o.state.cancelled
    /\ nextScope' = o.state.nextScope
    /\ failedSecretConfigs' = o.state.failedSecretConfigs
    /\ secretsTotal' = o.state.secretsTotal
    /\ secretKeyToWatcher' = o.k.secretKeyToWatcher
    /\ watchers' = o.k.watchers
    /\ regs' = o.k.regs
    /\ last' = o.call
    /\ napplies' = IF o.call.op = "ApplyConfig" THEN napplies + 1 ELSE napplies
    /\ UNCHANGED <<api, nenv>>

ManagedApplyConfig ==
    /\ phase = "idle"
    /\ napplies < MaxApplies
    /\ MutexFree(watchers, {secretKeyToWatcher[o] : o \in DOMAIN secretKeyToWatcher})
    /\ \E providerConfig \in WatchSPConfigs, configs \in KubeSnapshots :
         \E o \in watchApplyConfigOutcomes(State, ManagedWorld, providerConfig, configs, "ok",
                                           [x \in Objects |-> PayloadOf(api[x])]) :
            ManagedReturns(o)

ManagedFetch ==
    /\ phase = "idle"
    /\ \E name \in Names :
         /\ name \in DOMAIN m_secrets /\ m_secrets[name].secret # NilSecret
              => MutexFree(watchers, {m_secrets[name].secret.watcher})
         /\ ManagedReturns([state |-> State, k |-> ManagedWorld,
                            call |-> Call("Fetch", NilConfig, << >>, name, FALSE, NoScope, {}, << >>, FALSE, << >>,
                                          watchManagerFetch(watchers, m_secrets, name))])

ManagedClose ==
    /\ phase = "idle"
    /\ ManagedReturns(ManagerClose(State) @@ [k |-> ManagedWorld])

\* The steps the tasks take while the API server keeps every stream open
\* and no Secret changes: a stream is closed by Remove only.
QuietTaskOf(i) ==
    /\ i \in DOMAIN watchers
    /\ \/ TaskChannelClosed(i)
       \/ TaskCtxDone(i)
       \/ TaskCheck(i)

QuietTask == \E i \in 1..MaxWatchers : QuietTaskOf(i)

ManagedNext ==
    \/ ManagedApplyConfig
    \/ ManagedFetch
    \/ ManagedClose
    \/ Return
    \/ CancelCtx
    \/ QuietTask

\* The manager over the watch provider and its callers, with a quiet API
\* server.
ManagedSpec == Init /\ [][ManagedNext]_vars

\* The scheduler runs every task that can take a step, and a caller takes
\* the result of its call.
ManagedFairness ==
    /\ WF_vars(Return)
    /\ \A i \in 1..MaxWatchers : SF_vars(QuietTaskOf(i))

ManagedFairSpec == Init /\ [][ManagedNext]_vars /\ ManagedFairness

----------------------------------------------------------------------------
(* The manager over a provider whose Remove can fail *)

\* The error of a Remove that fails.
errRemove == <<"remove failed", "">>

\* Provider.Remove of a provider that fails to remove the configs in
\* failing and is the provider of the tests otherwise.
FailingRemove(p, cfg, failing) == IF cfg \in failing THEN errRemove ELSE ProviderRemove(p, cfg)

\* A third loop that returns at the first Remove error.
RECURSIVE removePassFailing_StopsAtError(_, _, _, _, _)
removePassFailing_StopsAtError(p, order, i, st, failing) ==
    IF i > Len(order) THEN st
    ELSE LET secretUnused == st.secrets[order[i]]
             e == FailingRemove(p, secretUnused.config, failing)
             call == ProviderCall("Remove", order[i], secretUnused.config, secretUnused.config, p, e)
         IN IF e # NoErr
            THEN [st EXCEPT !.errs = Append(st.errs, e), !.ops = Append(st.ops, call), !.final = st.secrets]
            ELSE removePassFailing_StopsAtError(p, order, i + 1, [st EXCEPT !.ops = Append(st.ops, call)], failing)

\* updateSecrets, third loop, over that provider.
RECURSIVE removePassFailing(_, _, _, _, _)
removePassFailing(p, order, i, st, failing) ==
    IF i > Len(order) THEN st
    ELSE LET secretUnused == st.secrets[order[i]]
             e == FailingRemove(p, secretUnused.config, failing)
             call == ProviderCall("Remove", order[i], secretUnused.config, secretUnused.config, p, e)
         IN removePassFailing(p, order, i + 1,
               [st EXCEPT !.errs = IF e # NoErr THEN Append(st.errs, e) ELSE st.errs,
                          !.ops = Append(st.ops, call)], failing)

\* updateSecrets over that provider.
updateSecretsFailing(p, secrets, configs, order, failing) ==
    LET st == removePassFailing(p, order, 1, reconciled(p, secrets, configs), failing)
        total == totalOf(secretNamesEnabled(configs).enabled)
        success == Cardinality(DOMAIN st.final)
    IN [secrets |-> st.final, failed |-> total - success, total |-> total,
        ops |-> st.ops, errs |-> st.errs]

\* ApplyConfig that keeps the live provider, over that provider.
ApplyConfigKeepProviderFailing(s, providerConfig, configs, order, failing) ==
    LET r == updateSecretsFailing(s.provider, s.secrets, configs, order, failing)
    IN [state |-> [s EXCEPT !.secrets = r.secrets,
                            !.failedSecretConfigs = r.failed,
                            !.secretsTotal = r.total,
                            !.config = DeferredConfig(s.config, providerConfig)],
        call |-> Call("ApplyConfig", providerConfig, configs, "", FALSE, NoScope,
                      {}, r.ops, TRUE, r.errs, NoFetch)]

\* ApplyConfig over that provider: a call that builds a provider has no
\* entry left to remove.
ApplyConfigFailingOutcomes(s, providerConfig, configs, failing) ==
    IF Len(configs) = 0 \/ NeedsProvider(yamlEqualConfig(s.config, providerConfig), s.provider)
    THEN ApplyConfigOutcomes(s, providerConfig, configs)
    ELSE {ApplyConfigKeepProviderFailing(s, providerConfig, configs, order, failing) :
            order \in Orders(DOMAIN reconciled(s.provider, s.secrets, configs).secrets)}

ApplyConfigFailingRemove ==
    /\ phase = "idle"
    /\ \E providerConfig \in TestConfigs, configs \in Snapshots, failing \in SUBSET TestSecrets :
         \E o \in ApplyConfigFailingOutcomes(State, providerConfig, configs, failing) :
            /\ o.state.nextScope <= MaxBuilds + 1
            /\ Returns(o)

RemoveErrNext == ApplyConfigFailingRemove \/ Fetch \/ Close \/ Return

RemoveErrSpec == Init /\ [][RemoveErrNext]_vars

----------------------------------------------------------------------------
(* Vocabulary of the properties *)

\* The names a snapshot mentions, and how often it mentions one.
SnapshotNames(configs) == {configs[i].name : i \in DOMAIN configs}

Occurrences(configs, name) ==
    Cardinality({i \in DOMAIN configs : configs[i].name = name})

\* The names a snapshot mentions exactly once, and the config it gives one.
OnceNames(configs) == {n \in SnapshotNames(configs) : Occurrences(configs, n) = 1}

ConfigOf(configs, name) ==
    configs[CHOOSE i \in DOMAIN configs : configs[i].name = name].config

\* Two provider configs with byte-equal documents: both nil, or the same
\* Prefix whatever their configID.
SameSerializedForm(x, y) == x.isNil = y.isNil /\ x.prefix = y.prefix

\* The provider calls of a call record with one of the given operations.
OpsOf(call, kinds) == {i \in DOMAIN call.ops : call.ops[i].op \in kinds}

\* An ApplyConfig call has just returned / returns in this step.
AppliedNonEmpty ==
    phase = "returned" /\ last.op = "ApplyConfig" /\ Len(last.configs) > 0

ApplyStep == phase = "idle" /\ last'.op = "ApplyConfig"

NewProviderFailed(call) == call.errs = <<errNewProvider>>

----------------------------------------------------------------------------
(* C1 *)

\* C1 (idempotence), for a first call that returned no error: once
\* ApplyConfig has returned nil for a provider config and a non-empty
\* snapshot, calling it again with a serialization-equal provider config
\* and the same snapshot dispatches no Add and no Update and leaves the
\* same entries.  The code violates it: Update keeps the entry's old
\* config, so a snapshot applied after a changed one is updated again.
C1_Idempotence ==
    (AppliedNonEmpty /\ last.errs = << >>) =>
        \A pc \in TestConfigs :
            SameSerializedForm(pc, last.providerConfig) =>
                \A o \in ApplyConfigOutcomes(State, pc, last.configs) :
                    /\ OpsOf(o.call, {"Add", "Update"}) = {}
                    /\ o.state.secrets = m_secrets

----------------------------------------------------------------------------
(* C2 *)

\* The entries a snapshot leaves unchanged: named once, with a config whose
\* document equals the stored one.
UnchangedNames(secrets, configs) ==
    {n \in OnceNames(configs) \cap DOMAIN secrets :
        ConfigOf(configs, n).foo = secrets[n].config.foo}

\* C2 (no spurious rebuild): an ApplyConfig with a non-empty snapshot and a
\* provider config whose document equals the stored one's, on a manager
\* with a live provider, does not call NewProvider, leaves the provider,
\* its cancel function and every scope as they were, and keeps the entry
\* (and so the fetcher of the original provider) of every unchanged name.
C2_NoSpuriousRebuild ==
    [][ (/\ ApplyStep
         /\ Len(last'.configs) > 0
         /\ m_provider # NoProvider
         /\ SameSerializedForm(m_config, last'.providerConfig))
        => /\ ~last'.built
           /\ m_provider' = m_provider
           /\ m_cancelFn' = m_cancelFn
           /\ cancelled' = cancelled
           /\ nextScope' = nextScope
           /\ \A n \in UnchangedNames(m_secrets, last'.configs) :
                 /\ n \in DOMAIN m_secrets'
                 /\ m_secrets'[n] = m_secrets[n]
                 /\ m_secrets'[n].secret.p = m_provider ]_vars

\* A call with a different configID only, served without a rebuild, with an
\* entry it left alone.
C2_Witness ==
    /\ AppliedNonEmpty
    /\ ~last.built
    /\ last.providerConfig.configID # m_provider.id
    /\ last.providerConfig.prefix = m_provider.config
    /\ \E n \in DOMAIN m_secrets :
          /\ m_secrets[n].secret.p = m_provider
          /\ \A i \in DOMAIN last.ops : last.ops[i].name # n

----------------------------------------------------------------------------
(* C3 *)

\* C3 (rebuild on config change): an ApplyConfig with a non-empty snapshot
\* and a provider config whose document differs from that of the config
\* the live provider was built from, whose NewProvider does not fail,
\* builds a new provider, and registers every name the snapshot mentions
\* once on it through Add alone.  The code violates it after a failed
\* NewProvider (C4): the failed config is stored, so the same config is
\* then taken as unchanged and no provider is built.
C3_RebuildOnConfigChange ==
    [][ (/\ ApplyStep
         /\ Len(last'.configs) > 0
         /\ m_provider # NoProvider
         /\ last'.providerConfig.prefix # m_provider.config
         /\ ~NewProviderFailed(last'))
        => /\ last'.built
           /\ m_provider'.scope = nextScope
           /\ m_provider'.config = last'.providerConfig.prefix
           /\ \A i \in DOMAIN last'.ops :
                 /\ last'.ops[i].op = "Add"
                 /\ last'.ops[i].scope = m_provider'.scope
           /\ \A n \in OnceNames(last'.configs) :
                 \E i \in DOMAIN last'.ops : last'.ops[i].name = n
           /\ \A n \in DOMAIN m_secrets' :
                 m_secrets'[n].secret.p = m_provider' ]_vars

----------------------------------------------------------------------------
(* C4 *)

\* C4 (failed NewProvider touches nothing): an ApplyConfig whose
\* NewProvider fails returns that error and leaves the stored provider
\* config, the provider, the cancel function and the entries as they were,
\* cancels no scope but its own fresh one and dispatches nothing.  The code
\* violates it: the deferred m.config = providerConfig runs on this return
\* too and stores the config that failed.
C4_FailedNewProviderTouchesNothing ==
    [][ (ApplyStep /\ NewProviderFailed(last'))
        => /\ m_config' = m_config
           /\ m_provider' = m_provider
           /\ m_cancelFn' = m_cancelFn
           /\ m_secrets' = m_secrets
           /\ cancelled' \ cancelled = {last'.scope}
           /\ m_cancelFn \notin cancelled' \ cancelled
           /\ last'.ops = << >> ]_vars

----------------------------------------------------------------------------
(* C5 *)

\* How often an error occurs in the errors a call returned.
ErrCount(call, e) == Cardinality({i \in DOMAIN call.errs : call.errs[i] = e})

\* The Removes a call dispatched for a name with a config.
RemovesOf(call, name, cfg) ==
    {i \in OpsOf(call, {"Remove"}) :
        call.ops[i].name = name /\ call.ops[i].config = cfg}

\* What C5 and its amended form share: one duplicate error for a name the
\* snapshot has twice, no Add or Update for it, and the name not in the
\* entries, so that Fetch does not find it.
DuplicateDropped(call, secretsAfter, n) ==
    /\ ErrCount(call, DuplicateErr(n)) = 1
    /\ \A i \in OpsOf(call, {"Add", "Update"}) : call.ops[i].name # n
    /\ n \notin DOMAIN secretsAfter
    /\ ManagerFetch(secretsAfter, n).err = NotFoundErr(n)

\* C5 (duplicate detection) as stated, for calls whose NewProvider did not
\* fail: a snapshot with exactly two entries named N yields exactly one
\* duplicate error for N, passes neither entry to Add or Update, leaves N
\* out of the entries, and releases an earlier registration of N with one
\* provider Remove.  It fails where the call builds a new provider: the old
\* entries are dropped with the old scope and no Remove is dispatched.
C5_DuplicateDetection ==
    [][ (ApplyStep /\ ~NewProviderFailed(last'))
        => \A n \in SnapshotNames(last'.configs) :
             Occurrences(last'.configs, n) = 2 =>
               /\ DuplicateDropped(last', m_secrets', n)
               /\ n \in DOMAIN m_secrets =>
                     Cardinality(RemovesOf(last', n, m_secrets[n].config)) = 1
      ]_vars

\* C5 amended: as above, and an earlier registration of N is released with
\* exactly one Remove (of its stored config) when the call keeps the
\* provider; when the call builds a new provider, the old provider's scope
\* is cancelled and no Remove is dispatched.
C5_DuplicateDetectionAmended ==
    [][ (ApplyStep /\ ~NewProviderFailed(last'))
        => \A n \in SnapshotNames(last'.configs) :
             Occurrences(last'.configs, n) = 2 =>
               /\ DuplicateDropped(last', m_secrets', n)
               /\ n \in DOMAIN m_secrets =>
                     IF last'.built
                     THEN /\ OpsOf(last', {"Remove"}) = {}
                          /\ m_cancelFn \in cancelled'
                     ELSE /\ Cardinality(RemovesOf(last', n, m_secrets[n].config)) = 1
                          /\ Cardinality({i \in OpsOf(last', {"Remove"}) :
                                            last'.ops[i].name = n}) = 1
      ]_vars

\* A kept provider released the earlier registration of a duplicated name.
C5_Witness ==
    /\ AppliedNonEmpty
    /\ ~last.built
    /\ \E n \in SnapshotNames(last.configs) :
          /\ Occurrences(last.configs, n) = 2
          /\ ErrCount(last, DuplicateErr(n)) = 1
          /\ \E i \in OpsOf(last, {"Remove"}) : last.ops[i].name = n

----------------------------------------------------------------------------
(* C6 *)

\* The names whose Add or Update failed in a call.
FailedNames(call) ==
    {call.ops[i].name : i \in {j \in OpsOf(call, {"Add", "Update"}) :
                                  call.ops[j].err # NoErr}}

\* A snapshot without the entries of a name; the provider calls for a name.
Without(configs, name) == SelectSeq(configs, LAMBDA c : c.name # name)

OpsFor(ops, name) == SelectSeq(ops, LAMBDA c : c.name = name)

\* C6 (error isolation).  In an ApplyConfig that reconciles: for a name
\* whose Add or Update fails, every other name the snapshot mentions once
\* gets the provider calls and the entry it gets from the snapshot without
\* the failing entry; the failing name is not in the entries afterwards and
\* is one of the names failed_secret_configs counts.  A name enters the
\* entries only through ApplyConfig, and an ApplyConfig that reconciles a
\* name it mentions once and that is not registered dispatches Add for it:
\* so the failed name is attempted again through Add.
C6_ErrorIsolation ==
    [][ /\ (ApplyStep /\ last'.committed) =>
              LET before == IF last'.built THEN EmptyMap ELSE m_secrets IN
              /\ \A n \in FailedNames(last') :
                    /\ n \notin DOMAIN m_secrets'
                    /\ failedSecretConfigs' =
                          Cardinality(SnapshotNames(last'.configs) \ DOMAIN m_secrets')
                    /\ \A order \in Orders(DOMAIN
                            reconciled(m_provider', before,
                                       Without(last'.configs, n)).secrets) :
                          LET r == updateSecrets(m_provider', before,
                                                 Without(last'.configs, n), order)
                          IN \A x \in OnceNames(last'.configs) \ {n} :
                               /\ (x \in DOMAIN m_secrets') = (x \in DOMAIN r.secrets)
                               /\ x \in DOMAIN m_secrets' =>
                                     m_secrets'[x] = r.secrets[x]
                               /\ OpsFor(last'.ops, x) = OpsFor(r.ops, x)
              /\ \A n \in OnceNames(last'.configs) \ DOMAIN before :
                    \E i \in OpsOf(last', {"Add"}) :
                        /\ last'.ops[i].name = n
                        /\ last'.ops[i].config = ConfigOf(last'.configs, n)
        /\ (~ApplyStep) => m_secrets' = m_secrets
      ]_vars

\* An Add failed for one name while another name of the snapshot was
\* registered.
C6_Witness ==
    /\ AppliedNonEmpty
    /\ last.committed
    /\ \E n \in FailedNames(last) :
          /\ n \notin DOMAIN m_secrets
          /\ failedSecretConfigs = 1
          /\ \E x \in DOMAIN m_secrets : x # n /\ x \in OnceNames(last.configs)

----------------------------------------------------------------------------
(* C7 *)

\* C7 (empty snapshot drains).  ApplyConfig with no configs returns nil,
\* cancels the scope of the current provider and leaves no provider, no
\* stored config and no entries, so that Fetch finds no name; this lasts
\* until the next ApplyConfig, and an ApplyConfig with a non-empty snapshot
\* on a manager without provider calls NewProvider, whose provider, when it
\* succeeds, runs in a scope that did not exist before.
C7_EmptySnapshotDrains ==
    [][ /\ (ApplyStep /\ Len(last'.configs) = 0) =>
              /\ last'.errs = << >>
              /\ cancelled' = cancelled \cup (({m_cancelFn}) \ {NoScope})
              /\ m_provider' = NoProvider
              /\ m_config' = NilConfig
              /\ m_secrets' = EmptyMap
              /\ \A n \in Names : ManagerFetch(m_secrets', n).err = NotFoundErr(n)
        /\ (phase = "idle" /\ last'.op = "Fetch" /\ m_secrets = EmptyMap) =>
              last'.fetched.err = NotFoundErr(last'.name)
        /\ (~ApplyStep) =>
              /\ m_provider' = m_provider
              /\ m_config' = m_config
              /\ m_secrets' = m_secrets
        /\ (ApplyStep /\ Len(last'.configs) > 0 /\ m_provider = NoProvider) =>
              /\ last'.built
              /\ ~NewProviderFailed(last') =>
                    /\ m_provider' # NoProvider
                    /\ m_provider'.scope = nextScope
                    /\ m_provider'.scope \notin cancelled'
                    /\ \A n \in DOMAIN m_secrets' :
                          m_secrets'[n].secret.p = m_provider'
      ]_vars

\* An empty snapshot has just cancelled the scope of a live provider.
C7_Witness ==
    /\ phase = "returned"
    /\ last.op = "ApplyConfig"
    /\ Len(last.configs) = 0
    /\ last.cancels # {}
    /\ last.cancels \subseteq cancelled
    /\ m_provider = NoProvider

----------------------------------------------------------------------------
(* C8 *)

\* C8 (Fetch dispatch): Fetch fails with "secret not found" exactly for a
\* name that is not in the entries and otherwise returns what the entry's
\* fetcher returns; and after an ApplyConfig that returned nil, the fetcher
\* of every name of the snapshot is the one bound to the config the
\* snapshot gives for it.  The code violates the second part: Update keeps
\* the entry's old config, so a snapshot that goes back to that config
\* finds the entry unchanged and keeps the fetcher of the config between.
C8_FetchDispatch ==
    /\ (phase = "returned" /\ last.op = "Fetch") =>
          /\ (last.fetched.err = NotFoundErr(last.name))
                = (last.name \notin DOMAIN m_secrets)
          /\ last.name \in DOMAIN m_secrets =>
                last.fetched = SecretFetch(m_secrets[last.name].secret)
    /\ (AppliedNonEmpty /\ last.errs = << >>) =>
          \A n \in SnapshotNames(last.configs) :
              /\ n \in DOMAIN m_secrets
              /\ m_secrets[n].secret = SecretFn(m_provider, ConfigOf(last.configs, n))

----------------------------------------------------------------------------
(* C9 *)

\* C9 (gauges follow the last snapshot), for snapshots that repeat no name
\* and calls whose NewProvider did not fail: after ApplyConfig,
\* secrets_total is the number of names of the snapshot and
\* failed_secret_configs the number of them that are not in the entries.
\* The code violates it for the empty snapshot, which returns before the
\* gauges are set and leaves the counts of the snapshot before.
C9_GaugesFollowLastSnapshot ==
    (/\ phase = "returned"
     /\ last.op = "ApplyConfig"
     /\ ~NewProviderFailed(last)
     /\ OnceNames(last.configs) = SnapshotNames(last.configs))
    => /\ secretsTotal = Cardinality(OnceNames(last.configs))
       /\ failedSecretConfigs =
             Cardinality(OnceNames(last.configs) \ DOMAIN m_secrets)

----------------------------------------------------------------------------
(* C10 *)

\* C10 (gauge arithmetic): after an ApplyConfig that reached the commit of
\* updateSecrets, secrets_total is the number of distinct names of the
\* snapshot (the size of the map of the duplicate pass),
\* failed_secret_configs = secrets_total - |entries| and lies between 0 and
\* secrets_total; a snapshot of one name twice gives 1 and 1.
C10_GaugeArithmetic ==
    (phase = "returned" /\ last.op = "ApplyConfig" /\ last.committed)
    => /\ secretsTotal = Cardinality(SnapshotNames(last.configs))
       /\ failedSecretConfigs = secretsTotal - Cardinality(DOMAIN m_secrets)
       /\ 0 <= failedSecretConfigs
       /\ failedSecretConfigs <= secretsTotal
       /\ (Len(last.configs) = 2 /\ last.configs[1].name = last.configs[2].name)
             => (secretsTotal = 1 /\ failedSecretConfigs = 1)

\* The snapshot [a, a] has been reconciled.
C10_Witness ==
    /\ phase = "returned"
    /\ last.op = "ApplyConfig"
    /\ last.committed
    /\ Len(last.configs) = 2
    /\ last.configs[1].name = last.configs[2].name
    /\ secretsTotal = 1
    /\ failedSecretConfigs = 1

----------------------------------------------------------------------------
(* Vocabulary of the properties of the watch provider *)

\* A call op of the provider returns in this step.
KubeStep(op) == phase = "idle" /\ phase' = "returned" /\ last'.op = op

\* The watchers created for an object.
WatchersOn(ws, object) == {i \in DOMAIN ws : objectKey(ws[i].config) = object}

\* The watchers of an object whose stream is open.
OpenOn(ws, object) == {i \in WatchersOn(ws, object) : ws[i].w = "open"}

----------------------------------------------------------------------------
(* C11 *)

\* C11: an Add for an object that has a watcher in the map adds exactly one
\* to that watcher's refCount, creates no watcher and leaves every stream
\* and the map as they are; an Add that succeeds for an object without a
\* watcher in the map creates exactly one watcher, with refCount 1 and an
\* open stream, and puts it in the map.  By induction N Adds of N keys of
\* one object open one stream and leave refCount = N.
C11_WatchSharing ==
    [][KubeStep("Add") =>
         LET keyStr == objectKey(last'.config) IN
         IF keyStr \in DOMAIN secretKeyToWatcher
         THEN LET val == secretKeyToWatcher[keyStr] IN
              /\ watchers' = [watchers EXCEPT ![val].refCount = watchers[val].refCount + 1]
              /\ secretKeyToWatcher' = secretKeyToWatcher
              /\ last'.err = NoErr
         ELSE last'.err = NoErr =>
              /\ Len(watchers') = Len(watchers) + 1
              /\ SubSeq(watchers', 1, Len(watchers)) = watchers
              /\ watchers'[Len(watchers')].refCount = 1
              /\ watchers'[Len(watchers')].w = "open"
              /\ secretKeyToWatcher' = Put(secretKeyToWatcher, keyStr, Len(watchers'))]_vars

\* Two keys of one object registered by two Adds: one watcher, refCount 2,
\* one stream.
C11_Witness ==
    /\ phase = "returned" /\ last.op = "Add" /\ last.err = NoErr /\ last.secret = NilSecret
    /\ \E o \in Objects :
         /\ o \in DOMAIN secretKeyToWatcher
         /\ \A c \in KubeSecretConfigs : objectKey(c) = o => regs[c] = 1
         /\ watchers[secretKeyToWatcher[o]].refCount = 2
         /\ Cardinality(WatchersOn(watchers, o)) = 1
         /\ Cardinality(OpenOn(watchers, o)) = 1

----------------------------------------------------------------------------
(* C12 *)

\* C12: once every config registered on an object has been released (as
\* many Removes as successful Adds, never more Removes than Adds), the
\* object has no watcher in the map and none of the watchers a successful
\* Add created for it has an open stream.
C12_ReferenceCountRelease ==
    \A o \in Objects :
       RegsOn(regs, o) = 0 =>
          /\ o \notin DOMAIN secretKeyToWatcher
          /\ \A i \in WatchersOn(watchers, o) : watchers[i].pc # "nostart" => watchers[i].w # "open"

----------------------------------------------------------------------------
(* C13 *)

\* C13: outside a call in progress, the refCount of every watcher of the
\* provider's map is the number of configs the callers hold on its object.
C13_RefCountIsRegistrations ==
    \A o \in DOMAIN secretKeyToWatcher :
       watchers[secretKeyToWatcher[o]].refCount = RegsOn(regs, o)

----------------------------------------------------------------------------
(* C14 *)

\* Watcher i exists, is referenced, and its context is not cancelled.
Referenced(i) ==
    i \in DOMAIN watchers /\ watchers[i].refCount > 0 /\ watchers[i].ctx \notin cancelled

\* An open stream belongs to a referenced watcher.
OpenIsReferenced == \A i \in DOMAIN watchers : watchers[i].w = "open" => watchers[i].refCount > 0

\* C14: a watcher whose stream is open has refCount > 0 (so a watcher with
\* refCount 0 has no open stream once the Remove that released it has
\* returned), and a watcher with refCount > 0 whose context is not
\* cancelled has an open stream, or has one again after the reconnect
\* window.
C14_StreamOpenIffReferenced ==
    /\ []OpenIsReferenced
    /\ \A i \in 1..MaxWatchers :
          Referenced(i) ~> (i \in DOMAIN watchers /\ (watchers[i].w = "open" \/ ~Referenced(i)))

----------------------------------------------------------------------------
(* C15 *)

\* C15: a Remove of a config whose object has no watcher in the map returns
\* nil and leaves the map and every watcher (refCount, stream, cache) as
\* they are; the second Remove of a config after the one that released it
\* is such a call.
C15_RemoveUnknownIsNoOp ==
    [][(KubeStep("Remove") /\ objectKey(last'.config) \notin DOMAIN secretKeyToWatcher) =>
         /\ last'.err = NoErr
         /\ secretKeyToWatcher' = secretKeyToWatcher
         /\ watchers' = watchers]_vars

\* A Remove for an object that was never watched has returned, while a
\* watcher of another object is in the map with its stream open.
C15_Witness ==
    /\ phase = "returned" /\ last.op = "Remove" /\ last.err = NoErr
    /\ WatchersOn(watchers, objectKey(last.config)) = {}
    /\ \E o \in DOMAIN secretKeyToWatcher :
         watchers[secretKeyToWatcher[o]].w = "open" /\ watchers[secretKeyToWatcher[o]].refCount > 0

----------------------------------------------------------------------------
(* C16 *)

\* C16: when a Remove of a config has returned and no registration of the
\* config is left, the fetchers Add returned for that config (the closures
\* over the watchers created for it) yield no secret value: a Fetch through
\* them returns an error.
C16_RemoveInvalidatesFetcher ==
    (phase = "returned" /\ last.op = "Remove" /\ regs[last.config] = 0) =>
       \A i \in DOMAIN watchers :
          (watchers[i].config = last.config /\ watchers[i].pc # "nostart") =>
             watcherFetch(watchers[i], last.config.key).err # NoErr

----------------------------------------------------------------------------
(* C17 *)

\* What a Fetch through watcher w returns, for every key.
FetchResults(w) == [key \in Keys |-> watcherFetch(w, key)]

\* Steps into, within and out of the window in which the stream of a
\* watcher is closed leave what a Fetch through the watcher returns as it
\* was.
CacheKeptWhileClosed ==
    \A i \in DOMAIN watchers :
       (watchers[i].w = "closed" \/ watchers'[i].w = "closed") =>
          FetchResults(watchers'[i]) = FetchResults(watchers[i])

C17_Witness ==
    \E i \in DOMAIN watchers :
       /\ Referenced(i)
       /\ watchers[i].w = "open" /\ watchers[i].pc = "select" /\ watchers[i].q = << >>
       /\ watchers[i].s # PayloadOf(api[objectKey(watchers[i].config)])

----------------------------------------------------------------------------
(* C18 *)

\* C18: when the scope of a provider generation is cancelled, every watcher
\* that generation created eventually has its stream stopped and its task
\* exited, whether or not the caller's context is ever cancelled.
C18_HierarchicalCancellation ==
    \A i \in 1..MaxWatchers :
       (i \in DOMAIN watchers /\ watchers[i].scope \in cancelled)
          ~> (i \in DOMAIN watchers /\ watchers[i].w # "open" /\ watchers[i].pc = "done")

----------------------------------------------------------------------------
(* C19 *)

\* C19: after an ApplyConfig whose snapshot has unique names, every entry
\* of the manager holds a fetcher that is not nil.
C19_NoNilFetcherInEntries ==
    (phase = "returned" /\ last.op = "ApplyConfig" /\ OnceNames(last.configs) = SnapshotNames(last.configs)) =>
       \A name \in DOMAIN m_secrets : m_secrets[name].secret # NilSecret

----------------------------------------------------------------------------
(* C20 *)

\* The call ended in the panic of a method call on a nil fetcher.
Crashed(call) == call.fetched.err = errNilSecret(call.name)

\* C20: a Fetch for a name whose entry stores a nil fetcher returns an
\* error value and does not crash.
C20_FetchOnNilFetcherFailsGracefully ==
    (/\ phase = "returned" /\ last.op = "Fetch"
     /\ last.name \in DOMAIN m_secrets /\ m_secrets[last.name].secret = NilSecret) =>
       last.fetched.err # NoErr /\ ~Crashed(last)

----------------------------------------------------------------------------
(* C21 *)

\* The scopes context.WithCancel has created so far.
ScopesCreated == 1..(nextScope - 1)

\* Every scope created is cancelled, except the one of the live provider.
OneLiveScope == \A sc \in ScopesCreated : sc \notin cancelled => sc = m_cancelFn

\* Close has cancelled the scope of the provider the manager still holds;
\* what ApplyConfig does after Close is undefined.
ClosedManager == m_cancelFn \in cancelled

----------------------------------------------------------------------------
(* C22 *)

\* The names the first loop of updateSecrets leaves enabled.
EnabledNames(configs) ==
    LET enabled == secretNamesEnabled(configs).enabled IN {n \in DOMAIN enabled : enabled[n]}

\* C22: an ApplyConfig that keeps its provider calls Remove exactly once,
\* with the stored config, for every previous entry whose name is not an
\* enabled name of the snapshot, and for no other entry; every Remove comes
\* after every Add and Update of the call; every Remove error is in the
\* result; and the entries are committed whatever the Removes return: no
\* leftover name stays, every name whose Add or Update succeeded is an
\* entry, and every unchanged name keeps its entry.
C22_ReconciliationCleanup ==
    [][(ApplyStep /\ last'.committed /\ ~last'.built) =>
         LET leftover == DOMAIN m_secrets \ EnabledNames(last'.configs)
             removes == OpsOf(last', {"Remove"})
             others == OpsOf(last', {"Add", "Update"})
         IN /\ \A n \in leftover : Cardinality(RemovesOf(last', n, m_secrets[n].config)) = 1
            /\ \A i \in removes : last'.ops[i].name \in leftover
            /\ Cardinality(removes) = Cardinality(leftover)
            /\ \A i \in removes, j \in others : j < i
            /\ ErrCount(last', errRemove) = Cardinality({i \in removes : last'.ops[i].err # NoErr})
            /\ DOMAIN m_secrets' \cap leftover = {}
            /\ \A j \in others : last'.ops[j].err = NoErr => last'.ops[j].name \in DOMAIN m_secrets'
            /\ \A n \in UnchangedNames(m_secrets, last'.configs) :
                  n \in DOMAIN m_secrets' /\ m_secrets'[n] = m_secrets[n]]_vars

\* An ApplyConfig on the live provider has added a name and removed
\* another, the Remove failed, and the added name is an entry.
C22_Witness ==
    /\ phase = "returned" /\ last.op = "ApplyConfig" /\ last.committed /\ ~last.built
    /\ \E i \in OpsOf(last, {"Remove"}) : last.ops[i].err = errRemove
    /\ \E j \in OpsOf(last, {"Add"}) : last.ops[j].err = NoErr /\ last.ops[j].name \in DOMAIN m_secrets
    /\ ErrCount(last, errRemove) = 1

----------------------------------------------------------------------------
(* C23 *)

\* C23: a Remove for an object with a watcher in the map takes one from the
\* watcher's refCount; the watcher leaves the map exactly when the count
\* reaches zero, and while the count is above zero it stays in the map with
\* its stream as it was.
C23_EvictOnlyAtZero ==
    [][(KubeStep("Remove") /\ objectKey(last'.config) \in DOMAIN secretKeyToWatcher) =>
         LET key == objectKey(last'.config)
             val == secretKeyToWatcher[key]
         IN /\ watchers'[val].refCount = watchers[val].refCount - 1
            /\ watchers'[val].refCount > 0 =>
                  /\ key \in DOMAIN secretKeyToWatcher' /\ secretKeyToWatcher'[key] = val
                  /\ watchers'[val].w = watchers[val].w
            /\ watchers'[val].refCount = 0 => key \notin DOMAIN secretKeyToWatcher']_vars

----------------------------------------------------------------------------
(* C24 *)

\* C24: an Update whose two configs are on the same object returns a
\* fetcher over the watcher of the map and the key of the new config and
\* leaves the map and every watcher (refCount, stream, cache) as they are;
\* without a watcher for the object in the map it returns the error
\* "secret NS/NAME not found" and changes nothing.
C24_UpdateSameObject ==
    [][(KubeStep("Update") /\ objectKey(last'.before) = objectKey(last'.config)) =>
         LET key == objectKey(last'.config) IN
         /\ secretKeyToWatcher' = secretKeyToWatcher
         /\ watchers' = watchers
         /\ IF key \in DOMAIN secretKeyToWatcher
            THEN /\ last'.err = NoErr
                 /\ last'.secret = [watcher |-> secretKeyToWatcher[key], key |-> last'.config.key]
            ELSE /\ last'.err = KubeNotFoundErr(key)
                 /\ last'.secret = NilSecret
                 /\ regs' = regs]_vars

\* An Update from one key to another key of a watched object has returned
\* a fetcher; the object has one watcher, with one open stream.
C24_Witness ==
    /\ phase = "returned" /\ last.op = "Update" /\ last.err = NoErr
    /\ objectKey(last.before) = objectKey(last.config) /\ last.before.key # last.config.key
    /\ last.secret # NilSecret /\ last.secret.key = last.config.key
    /\ Cardinality(WatchersOn(watchers, objectKey(last.config))) = 1
    /\ Cardinality(OpenOn(watchers, objectKey(last.config))) = 1
    /\ watchers[last.secret.watcher].refCount = 1

----------------------------------------------------------------------------
(* C25 *)

\* The provider as a call leaves it.
KubeWorldAfter == World(NoScope, secretKeyToWatcher', watchers', regs')

\* C25: an Update whose configs are on different objects that returns has
\* done what Remove(before) does (the registration of before is released,
\* its object has no watcher in the map, the refCount of its watcher is one
\* less and the stream is stopped when the count reaches zero) and returns
\* what Add(after) returns.  On success the object of after is in the map:
\* with a watcher there already the result is Add's (nil, nil) and the
\* watcher's refCount is one more, otherwise a new watcher with refCount 1
\* and an open stream is created and the result is a fetcher over it; when
\* no other object was watched, one Remove(after) then empties the map.  On
\* failure nothing is registered for after and the Remove stays done.
C25_UpdateOtherObject ==
    [][(KubeStep("Update") /\ objectKey(last'.before) # objectKey(last'.config)) =>
         LET kb == objectKey(last'.before)
             ka == objectKey(last'.config)
         IN /\ kb \notin DOMAIN secretKeyToWatcher'
            /\ regs'[last'.before] = IF regs[last'.before] > 0 THEN regs[last'.before] - 1 ELSE 0
            /\ kb \in DOMAIN secretKeyToWatcher =>
                  LET val == secretKeyToWatcher[kb] IN
                  /\ watchers'[val].refCount = watchers[val].refCount - 1
                  /\ watchers'[val].refCount = 0 => watchers'[val].w = "stopped"
                  /\ watchers'[val].refCount > 0 => watchers'[val].w = watchers[val].w
            /\ IF last'.err = NoErr
               THEN /\ ka \in DOMAIN secretKeyToWatcher'
                    /\ regs'[last'.config] = regs[last'.config] + 1
                    /\ IF ka \in DOMAIN secretKeyToWatcher
                       THEN /\ last'.secret = NilSecret
                            /\ secretKeyToWatcher'[ka] = secretKeyToWatcher[ka]
                            /\ watchers'[secretKeyToWatcher[ka]].refCount = watchers[secretKeyToWatcher[ka]].refCount + 1
                            /\ Len(watchers') = Len(watchers)
                       ELSE /\ Len(watchers') = Len(watchers) + 1
                            /\ secretKeyToWatcher'[ka] = Len(watchers')
                            /\ last'.secret = [watcher |-> Len(watchers'), key |-> last'.config.key]
                            /\ watchers'[Len(watchers')].refCount = 1
                            /\ watchers'[Len(watchers')].w = "open"
                    /\ DOMAIN secretKeyToWatcher \subseteq {kb} =>
                          watchProviderRemove(KubeWorldAfter, last'.config).k.secretKeyToWatcher = EmptyMap
               ELSE /\ last'.err \in {errWatch(ka), errGet(ka)}
                    /\ last'.secret = NilSecret
                    /\ DOMAIN secretKeyToWatcher' = DOMAIN secretKeyToWatcher \ {kb}
                    /\ regs'[last'.config] = regs[last'.config]]_vars

\* An Update from a config on one object to a config on another has
\* returned a fetcher: the watcher of the first object has refCount 0 and
\* a stopped stream, the second object alone is in the map with an open
\* stream.
C25_Witness ==
    /\ phase = "returned" /\ last.op = "Update" /\ last.err = NoErr /\ last.secret # NilSecret
    /\ objectKey(last.before) # objectKey(last.config)
    /\ DOMAIN secretKeyToWatcher = {objectKey(last.config)}
    /\ watchers[last.secret.watcher].w = "open"
    /\ \E i \in WatchersOn(watchers, objectKey(last.before)) :
         watchers[i].refCount = 0 /\ watchers[i].w = "stopped" /\ watchers[i].config = last.before

----------------------------------------------------------------------------
(* C26 *)

\* C26: an Add that returns an error leaves the map and every watcher as
\* they were, starts no task, and leaves no stream it opened open.
C26_FailedAddLeavesNothing ==
    [][(KubeStep("Add") /\ last'.err # NoErr) =>
         /\ secretKeyToWatcher' = secretKeyToWatcher
         /\ regs' = regs
         /\ SubSeq(watchers', 1, Len(watchers)) = watchers
         /\ \A i \in DOMAIN watchers' \ DOMAIN watchers :
               watchers'[i].pc = "nostart" /\ watchers'[i].w # "open"]_vars

----------------------------------------------------------------------------
(* C27 *)

\* The task of watcher i takes the event e from its stream in this step.
Consumes(i, e) ==
    /\ phase = "idle" /\ phase' # "returned"
    /\ i \in DOMAIN watchers
    /\ watchers[i].q # << >> /\ Head(watchers[i].q) = e
    /\ watchers'[i].q = Tail(watchers[i].q)
    /\ watchers'[i].pc \in {"select", "crashed"}

\* What an event of each type makes of the cached payload s.
CachedAfter(s, e) ==
    CASE e.type \in {"ADDED", "MODIFIED"} -> PayloadOf(e.version)
      [] e.type = "DELETED" -> Absent
      [] OTHER -> s

\* C27: a new watcher caches what the seeding Get found, absent without
\* error for an object that does not exist; an Added or Modified event
\* sets the cache to its Secret, a Deleted event to absent, a Bookmark or
\* empty event changes nothing of the watcher; and a fetcher answers
\* "not found" exactly while the cache is absent, from the cache otherwise.
C27_CachedPayloadTracking ==
    [][/\ (KubeStep("Add") /\ last'.err = NoErr /\ Len(watchers') > Len(watchers)) =>
            watchers'[Len(watchers')].s = PayloadOf(api[objectKey(last'.config)])
       /\ \A i \in DOMAIN watchers, e \in Events :
            (Consumes(i, e) /\ e.type \in {"ADDED", "MODIFIED", "DELETED"}) =>
               /\ watchers'[i].s = CachedAfter(watchers[i].s, e)
               /\ watchers'[i].pc = "select"
       /\ \A i \in DOMAIN watchers, e \in Events :
            (Consumes(i, e) /\ e.type \in {"BOOKMARK", ""}) =>
               watchers'[i] = [watchers[i] EXCEPT !.q = Tail(@)]
       /\ KubeStep("Fetch") =>
            LET w == watchers[last'.fetcher.watcher] IN
            /\ (last'.fetched.err = KubeNotFoundErr(objectKey(w.config))) <=> (w.s = Absent)
            /\ w.s # Absent => last'.fetched = getKey(w.s, objectKey(w.config), last'.fetcher.key)]_vars

\* A fetcher answers "not found" after the Deleted event of a Secret that
\* existed when the watcher was created.
C27_Witness ==
    /\ phase = "returned" /\ last.op = "Fetch"
    /\ last.fetched.err = KubeNotFoundErr("ns1/s1")
    /\ api["ns1/s1"] = 0 /\ nenv = 1
    /\ watchers[last.fetcher.watcher].q = << >>

----------------------------------------------------------------------------
(* C28 *)

\* C28: when a task takes an Error event, whatever the cache holds, the
\* cache is unchanged and the task is still running, back at its select.
C28_ErrorEventKeepsTaskRunning ==
    [][\A i \in DOMAIN watchers :
         Consumes(i, [type |-> "ERROR", version |-> 0]) =>
            /\ watchers'[i].s = watchers[i].s
            /\ watchers'[i].pc = "select"
            /\ phase' = "idle"]_vars

----------------------------------------------------------------------------
(* C29 *)

\* The result the key resolution of a fetcher is to give on the payload s.
Resolved(s, object, key) ==
    IF s = Absent THEN [err |-> KubeNotFoundErr(object), data |-> ""]
    ELSE IF key \in DOMAIN s.data THEN [err |-> NoErr, data |-> s.data[key]]
    ELSE IF key \in DOMAIN s.stringData THEN [err |-> NoErr, data |-> s.stringData[key]]
    ELSE [err |-> MissingKeyErr(object, key), data |-> ""]

\* C29: Fetch gives "not found" on an absent cache, else the value of the
\* key in the binary map, else its value in the string map, else "does not
\* contain key"; a key in both maps gives the binary value.
C29_KeyResolution ==
    [][KubeStep("Fetch") =>
         LET w == watchers[last'.fetcher.watcher]
             key == last'.fetcher.key
         IN /\ last'.fetched = Resolved(w.s, objectKey(w.config), key)
            /\ (w.s # Absent /\ key \in DOMAIN w.s.data \cap DOMAIN w.s.stringData) =>
                  last'.fetched = [err |-> NoErr, data |-> w.s.data[key]]]_vars

\* A Fetch of a key that is in both maps returned the binary value.
C29_Witness ==
    /\ phase = "returned" /\ last.op = "Fetch" /\ last.fetcher.key = "k1"
    /\ watchers[last.fetcher.watcher].s = PayloadOf(2)
    /\ last.fetched = [err |-> NoErr, data |-> "xyz"]

----------------------------------------------------------------------------
(* C30 *)

\* C30: while a watcher has the invalid stream that a failed reopen left,
\* no step panics: the task does not take from the stream, and a Remove
\* completes.
C30_FailedReopenRetries ==
    [][\A i \in DOMAIN watchers :
         (watchers[i].w = "nil" /\ watchers[i].refCount > 0) => phase' # "crashed"]_vars

----------------------------------------------------------------------------
(* C31 *)

\* A watcher released by its last Remove keeps its stream not open.
ReleasedStaysClosed ==
    \A i \in DOMAIN watchers :
       /\ watchers[i].refCount = 0 => watchers'[i].w # "open"
       /\ (KubeStep("Remove") /\ watchers[i].refCount > 0 /\ watchers'[i].refCount = 0) =>
             watchers'[i].w = "stopped"

C31_Safety == [][ReleasedStaysClosed]_vars

----------------------------------------------------------------------------
(* C32 *)

\* C32: when the context of a watcher is cancelled, wherever its task is
\* (waiting for events, in the reconnect sleep, reopening the stream), the
\* task eventually exits with the stream not open, and a task that has
\* exited leaves no open stream.
C32_CancelStopsTask ==
    /\ [](\A i \in DOMAIN watchers : watchers[i].pc = "done" => watchers[i].w # "open")
    /\ \A i \in 1..MaxWatchers :
          (i \in DOMAIN watchers /\ watchers[i].pc # "nostart" /\ watchers[i].ctx \in cancelled)
             ~> (i \in DOMAIN watchers /\ watchers[i].pc = "done" /\ watchers[i].w # "open")

----------------------------------------------------------------------------
(* C33 *)

\* Two accesses that race: the same field, one of them a write, and not
\* both under the mutex.
Race(a, b) == a.field = b.field /\ (a.write \/ b.write) /\ ~(a.locked /\ b.locked)

\* Every access to the cached payload is under the mutex, and the callers
\* only read it.
CachedUnderMutex ==
    \A i \in DOMAIN watchers :
       /\ \A a \in taskAccesses(watchers[i]) \cup callerAccesses(i) : a.field = "s" => a.locked
       /\ \A b \in callerAccesses(i) : b.field = "s" => ~b.write

----------------------------------------------------------------------------
(* C34 *)

\* C34: every access to refCount and to the stream handle of a watcher, by
\* Add, Remove or the task, is under the mutex of the watcher, and no
\* access of a caller races with an access of the task.
C34_RefCountAndStreamUnderMutex ==
    \A i \in DOMAIN watchers :
       /\ \A a \in taskAccesses(watchers[i]) \cup callerAccesses(i) :
             a.field \in {"refCount", "w"} => a.locked
       /\ \A a \in taskAccesses(watchers[i]), b \in callerAccesses(i) : ~Race(a, b)

\* The refCount half of C34 alone: no caller writes refCount while the
\* task can read it, unless both hold the mutex.
C34_RefCountRace ==
    \A i \in DOMAIN watchers :
       \A a \in taskAccesses(watchers[i]), b \in callerAccesses(i) : a.field = "refCount" => ~Race(a, b)

----------------------------------------------------------------------------
(* C35 *)

\* C35: whenever a caller holds a fetcher of a watcher, also while the
\* task of the watcher is in the Watch call that reopens its stream, a
\* Fetch through it can complete without another step being taken first.
C35_FetchNeverWaits ==
    \A i \in 1..MaxWatchers :
       (phase = "idle" /\ i \in DOMAIN watchers /\ watchers[i].pc # "nostart") => ENABLED WatchFetchOf(i)

----------------------------------------------------------------------------
(* C36 *)

\* C36: after an ApplyConfig, the config stored in an entry is
\* serialization-equal to the config the call registered for the name with
\* a successful Add or Update.
C36_EntryConfigIsRegistered ==
    [][ApplyStep =>
         \A i \in DOMAIN last'.ops :
            LET call == last'.ops[i] IN
            (call.op \in {"Add", "Update"} /\ call.err = NoErr /\ call.name \in DOMAIN m_secrets') =>
               yamlEqualSecret(m_secrets'[call.name].config, call.config)]_vars

----------------------------------------------------------------------------
(* C37 *)

\* How many entries hold the config c.
EntriesWith(secrets, c) == Cardinality({n \in DOMAIN secrets : secrets[n].config = c})

\* How a sequence of provider calls changes the number of registrations of
\* the config c in a provider that changes nothing when a call fails.
RegisteredBy(ops, c) ==
    Cardinality({i \in DOMAIN ops : ops[i].err = NoErr /\ ops[i].op \in {"Add", "Update"} /\ ops[i].config = c})
      - Cardinality({i \in DOMAIN ops : ops[i].err = NoErr /\ ops[i].op \in {"Remove", "Update"} /\ ops[i].before = c})

\* C37: an ApplyConfig changes the configs of the entries as it changes
\* the registrations of the live provider, starting from none on a
\* provider it built; so at every return the configs registered are the
\* configs of the entries.
C37_NoLeakedRegistration ==
    [][(ApplyStep /\ last'.committed) =>
         \A c \in TestSecrets :
            EntriesWith(m_secrets', c)
               = (IF last'.built THEN 0 ELSE EntriesWith(m_secrets, c)) + RegisteredBy(last'.ops, c)]_vars

----------------------------------------------------------------------------
(* C38 *)

\* The watchers on an object whose task is alive.
AliveOn(ws, object) ==
    {i \in DOMAIN ws : objectKey(ws[i].config) = object /\ ws[i].pc \in {"select", "check", "sleep", "reopen"}}

\* C38: of all the watchers ever created for an object, in the map or not,
\* at most one has an open stream and at most one has a task alive.
C38_OneStreamPerObject ==
    \A o \in Objects :
       /\ Cardinality(OpenOn(watchers, o)) <= 1
       /\ Cardinality(AliveOn(watchers, o)) <= 1

\* The stream half of C38 alone, for watchers that were handed out.
C38_OneServedStream ==
    \A o \in Objects :
       Cardinality({i \in OpenOn(watchers, o) : watchers[i].pc # "nostart" /\ watchers[i].refCount > 0}) <= 1

----------------------------------------------------------------------------
(* C39 *)

\* A Remove, alone or as the first half of an Update between two objects,
\* reaches the decrement in this step: the object of its config is in the
\* map.
Decrements ==
    /\ phase = "idle" /\ phase' # "idle"
    /\ \/ last'.op = "Remove"
       \/ last'.op = "Update" /\ objectKey(last'.before) # objectKey(last'.config)
    /\ objectKey(last'.before) \in DOMAIN secretKeyToWatcher

\* C39: every decrement finds a refCount of at least 1 and takes one from
\* it, and no watcher ever has the refCount a decrement of zero gives.
C39_RefCountNoUnderflow ==
    /\ [](\A i \in DOMAIN watchers : watchers[i].refCount # UintMax)
    /\ [][Decrements =>
            LET val == secretKeyToWatcher[objectKey(last'.before)] IN
            /\ watchers[val].refCount >= 1
            /\ watchers'[val].refCount = watchers[val].refCount - 1]_vars

\* A Remove returned for an object whose watchers were all released and
\* have exited before: a repeated Remove.
C39_Witness ==
    /\ phase = "returned" /\ last.op = "Remove"
    /\ WatchersOn(watchers, objectKey(last.config)) # {}
    /\ \A i \in WatchersOn(watchers, objectKey(last.config)) :
          watchers[i].refCount = 0 /\ watchers[i].pc = "done"

----------------------------------------------------------------------------
(* C40 *)

\* C40: while the Secret only moves to higher versions, the cached payload
\* of a watcher, which is what a Fetch gives, never goes back to a lower
\* version than one it held before.
C40_NoRegressionAtStartup ==
    [][\A i \in DOMAIN watchers : watchers'[i].s.version >= watchers[i].s.version]_vars

====
